---------------------------- MODULE Spec2Model ----------------------------
(***************************************************************************)
(* Model of the Mini Location Service: the in-memory CacheService, the     *)
(* GeocodingService fallback over Google Maps, Mapbox and Nominatim, the   *)
(* FastAPI endpoints /reverse and /reverse/batch and the serverless        *)
(* handler.                                                                *)
(*                                                                         *)
(* Conventions.  A Python dict is a function on the set of its keys.       *)
(* Coordinates are integers in units of 10^-(CACHE_PRECISION+1) degree, so *)
(* 1297139 is 12.97139.  Times are whole seconds.  A call that may raise   *)
(* returns Raised or Returned(v).                                          *)
(***************************************************************************)
EXTENDS Integers, Sequences, FiniteSets, TLC

VARIABLES
    deployment,   \* which entry module the process serves: "fastapi" | "serverless"
    settings,     \* app.config.settings: which credentials are present
    cache_store,  \* app.services.cache._cache_store: key -> [data, expires_at]
    now,          \* datetime.utcnow(), in seconds
    req,          \* the requests in flight or finished, by slot
    probe         \* inputs and outputs of the pure-function specifications

vars == <<deployment, settings, cache_store, now, req, probe>>

---------------------------------------------------------------------------
(* Bounds of the model *)

MaxRequests == 2      \* request slots per behaviour
MaxBatch == 2         \* coordinates per batch request
MaxBatchRequests == 1 \* batch requests per behaviour
MaxTicks == 1         \* clock ticks of the endpoint specification

---------------------------------------------------------------------------
(* Python values *)

None == "<None>"                 \* None where a str is expected
NoneRec == [none |-> TRUE]       \* None where a dict or a model is expected
EmptyDict == <<>>                \* {}

Raised == [raised |-> TRUE]
Returned(v) == [raised |-> FALSE, value |-> v]

\* dict.get(k, default)
Get(d, k, default) == IF k \in DOMAIN d THEN d[k] ELSE default

\* truth value of a dict-or-None and of a str-or-None
TruthyRec(d) == d # NoneRec /\ d # EmptyDict
TruthyStr(s) == s # None /\ s # ""

\* a or b giving the last truthy operand instead of the first
OrStrLast(a, b) == IF TruthyStr(b) THEN b ELSE a

\* a or b on str-or-None operands
OrStr(a, b) == IF TruthyStr(a) THEN a ELSE b

\* str.upper() on the country codes that occur in the modelled payloads
Upper(s) ==
    CASE s = "in" -> "IN"
      [] s = "us" -> "US"
      [] s = "gb" -> "GB"
      [] OTHER -> s

\* s.startswith(p)
StartsWith(s, p) == Len(s) >= Len(p) /\ SubSeq(s, 1, Len(p)) = p

---------------------------------------------------------------------------
(* app/config.py *)

CACHE_TTL_DEFAULT == 86400
CACHE_PRECISION == 4

Pow10(n) == IF n = 0 THEN 1 ELSE IF n = 1 THEN 10 ELSE IF n = 2 THEN 100
            ELSE IF n = 3 THEN 1000 ELSE IF n = 4 THEN 10000 ELSE 100000

\* one degree in coordinate units: inputs carry one more decimal than the cache keeps
CoordUnit == Pow10(CACHE_PRECISION + 1)

---------------------------------------------------------------------------
(* app/services/validation.py *)

\* validate_coordinates: the ValueError it raises, or NoneRec when it returns
\* validate_coordinates accepting every coordinate
validate_coordinates_lax(lat, lng) == NoneRec

validate_coordinates(lat, lng) ==
    IF ~(-90 * CoordUnit <= lat /\ lat <= 90 * CoordUnit)
    THEN [msg |-> "Latitude must be between -90 and 90 degrees", value |-> lat]
    ELSE IF ~(-180 * CoordUnit <= lng /\ lng <= 180 * CoordUnit)
    THEN [msg |-> "Longitude must be between -180 and 180 degrees", value |-> lng]
    ELSE NoneRec

---------------------------------------------------------------------------
(* app/services/cache.py *)

\* round() cutting the fraction off instead of rounding to nearest
round_scaled_truncating(n) == IF n >= 0 THEN n \div 10 ELSE -((-n) \div 10)

\* round(x * 10**precision) for x = n / CoordUnit: the nearest integer to n/10.
\* Exact for every n whose last digit is not 5 (a tie is decided by the
\* floating-point error of the product, so the inputs of the model avoid ties).
round_scaled(n) == (n + 5) \div 10

\* float("inf"), which json.loads reads from Infinity: a value above every
\* coordinate
Infinity == 1000000000

\* round() raises OverflowError on an infinite float
round_raises(n) == n = Infinity

\* generate_cache_key leaving the language out of the key
generate_cache_key_without_language(lat, lng, language) ==
    IF round_raises(lat) \/ round_raises(lng) THEN Raised
    ELSE <<"location", round_scaled(lat), round_scaled(lng), "">>

\* generate_cache_key: the distinct rounded floats print distinctly, so the key
\* string is determined by, and determines, this tuple.
generate_cache_key(lat, lng, language) ==
    IF round_raises(lat) \/ round_raises(lng) THEN Raised
    ELSE <<"location", round_scaled(lat), round_scaled(lng), language>>

\* get_cache_ttl without the per-type table
get_cache_ttl_flat(place_type) == CACHE_TTL_DEFAULT

\* get_cache_ttl with the administrative TTL of a locality
get_cache_ttl_week(place_type) ==
    CASE place_type \in {"locality", "administrative"} -> 604800
      [] OTHER -> 86400

get_cache_ttl(place_type) ==
    CASE place_type = "street_address" -> 86400
      [] place_type = "locality" -> 604800
      [] place_type = "administrative" -> 2592000
      [] place_type = "establishment" -> 86400
      [] place_type = "point_of_interest" -> 86400
      [] OTHER -> CACHE_TTL_DEFAULT

\* get_location without its except clause
get_location_reraising(outcome) ==
    IF outcome = Raised THEN Raised ELSE outcome.value

\* get_location: except Exception: return None
get_location_except(outcome) ==
    IF outcome = Raised THEN NoneRec ELSE outcome.value

\* get_location with the expiry test inverted
get_location_inverted(store, t, lat, lng, language) ==
    LET cache_key == generate_cache_key(lat, lng, language)
    IN  get_location_except(
            IF cache_key = Raised THEN Raised
            ELSE IF cache_key \in DOMAIN store
            THEN IF t > store[cache_key].expires_at
                 THEN Returned(store[cache_key].data)
                 ELSE Returned(NoneRec)
            ELSE Returned(NoneRec))

\* get_location: the value returned
get_location(store, t, lat, lng, language) ==
    LET cache_key == generate_cache_key(lat, lng, language)
    IN  get_location_except(
            IF cache_key = Raised THEN Raised
            ELSE IF cache_key \in DOMAIN store
            THEN IF t < store[cache_key].expires_at
                 THEN Returned(store[cache_key].data)
                 ELSE Returned(NoneRec)
            ELSE Returned(NoneRec))

\* get_location deleting every expired entry it comes across
get_location_store_sweeping(store, t, lat, lng, language) ==
    LET cache_key == generate_cache_key(lat, lng, language)
    IN  IF cache_key = Raised THEN store
        ELSE [k \in {e \in DOMAIN store : t < store[e].expires_at} |-> store[k]]

\* get_location without its del statement
get_location_store_keeping(store, t, lat, lng, language) == store

\* get_location: the store it leaves (an expired entry is deleted)
get_location_store(store, t, lat, lng, language) ==
    LET cache_key == generate_cache_key(lat, lng, language)
    IN  IF cache_key = Raised THEN store
        ELSE IF cache_key \in DOMAIN store /\ ~(t < store[cache_key].expires_at)
        THEN [k \in DOMAIN store \ {cache_key} |-> store[k]]
        ELSE store

\* set_location: the ttl chosen (place_type None or "" takes the default)
set_location_ttl(place_type) ==
    IF TruthyStr(place_type) THEN get_cache_ttl(place_type) ELSE CACHE_TTL_DEFAULT

\* set_location: whether its try block raises (the key cannot be built, or
\* data is None and {**data} is a TypeError)
set_location_raises(lat, lng, language, data) ==
    generate_cache_key(lat, lng, language) = Raised \/ data = NoneRec

\* set_location: the value returned (True, or False from the except clause)
set_location_returns(lat, lng, language, data) ==
    ~set_location_raises(lat, lng, language, data)

\* set_location leaving the entry it finds
set_location_keeping_first(store, t, lat, lng, language, data, place_type) ==
    LET cache_key == generate_cache_key(lat, lng, language)
        ttl == set_location_ttl(place_type)
        cache_data == [cached_at |-> t, cache_ttl |-> ttl] @@ data
    IN  IF set_location_raises(lat, lng, language, data) THEN store
        ELSE IF cache_key \in DOMAIN store THEN store
        ELSE (cache_key :> [data |-> cache_data, expires_at |-> t + ttl]) @@ store

\* set_location updating the entry it finds instead of replacing it
set_location_merging(store, t, lat, lng, language, data, place_type) ==
    LET cache_key == generate_cache_key(lat, lng, language)
        ttl == set_location_ttl(place_type)
        cache_data == [cached_at |-> t, cache_ttl |-> ttl] @@ data
    IN  IF set_location_raises(lat, lng, language, data) THEN store
        ELSE IF cache_key \in DOMAIN store
        THEN [store EXCEPT ![cache_key] =
                 [data |-> store[cache_key].data @@ cache_data,
                  expires_at |-> store[cache_key].expires_at]]
        ELSE (cache_key :> [data |-> cache_data, expires_at |-> t + ttl]) @@ store

\* set_location: the store it leaves
set_location(store, t, lat, lng, language, data, place_type) ==
    LET cache_key == generate_cache_key(lat, lng, language)
        ttl == set_location_ttl(place_type)
        cache_data == [cached_at |-> t, cache_ttl |-> ttl] @@ data
    IN  IF set_location_raises(lat, lng, language, data) THEN store
        ELSE (cache_key :> [data |-> cache_data, expires_at |-> t + ttl]) @@ store

---------------------------------------------------------------------------
(* app/services/geocoding.py: the three parsers *)

\* AddressComponents(): every field None
AddressComponents ==
    [houseNumber |-> None, buildingName |-> None, street |-> None,
     subLocality |-> None, locality |-> None, subDistrict |-> None,
     district |-> None, city |-> None, state |-> None, stateCode |-> None,
     country |-> None, countryCode |-> None, pincode |-> None,
     area |-> None, region |-> None]

\* the loop body putting a locality into locality and a sublocality into
\* subLocality
google_component_shifted(acc, component) ==
    LET types == Get(component, "types", {})
        long_name == Get(component, "long_name", None)
        short_name == Get(component, "short_name", None)
    IN  IF "route" \in types THEN [acc EXCEPT !.street = long_name]
        ELSE IF "sublocality_level_1" \in types \/ "sublocality" \in types
        THEN [acc EXCEPT !.subLocality = long_name]
        ELSE IF "locality" \in types THEN [acc EXCEPT !.locality = long_name]
        ELSE IF "administrative_area_level_1" \in types
        THEN [acc EXCEPT !.state = long_name]
        ELSE IF "country" \in types
        THEN [acc EXCEPT !.country = long_name, !.countryCode = short_name]
        ELSE IF "postal_code" \in types THEN [acc EXCEPT !.pincode = long_name]
        ELSE acc

\* one turn of the loop over address_components (the if/elif chain)
google_component(acc, component) ==
    LET types == Get(component, "types", {})
        long_name == Get(component, "long_name", None)
        short_name == Get(component, "short_name", None)
    IN  IF "route" \in types THEN [acc EXCEPT !.street = long_name]
        ELSE IF "sublocality_level_1" \in types \/ "sublocality" \in types
        THEN [acc EXCEPT !.locality = long_name]
        ELSE IF "locality" \in types THEN [acc EXCEPT !.city = long_name]
        ELSE IF "administrative_area_level_1" \in types
        THEN [acc EXCEPT !.state = long_name]
        ELSE IF "country" \in types
        THEN [acc EXCEPT !.country = long_name, !.countryCode = short_name]
        ELSE IF "postal_code" \in types THEN [acc EXCEPT !.pincode = long_name]
        ELSE acc

RECURSIVE google_components(_, _)
google_components(acc, components) ==
    IF components = <<>> THEN acc
    ELSE google_components(google_component(acc, Head(components)), Tail(components))

\* _parse_google_maps_response: <<components, formatted_address>>
parse_google_maps_response(data) ==
    <<google_components(AddressComponents, Get(data, "address_components", <<>>)),
      Get(data, "formatted_address", "Address not available")>>

\* _parse_nominatim_response
parse_nominatim_response(data) ==
    LET address == Get(data, "address", EmptyDict)
        a(k) == Get(address, k, None)
    IN  <<[AddressComponents EXCEPT
              !.street = a("road"),
              !.locality = OrStr(a("suburb"), a("neighbourhood")),
              !.city = OrStr(OrStr(a("city"), a("town")), a("village")),
              !.state = a("state"),
              !.country = a("country"),
              !.countryCode = IF TruthyStr(a("country_code"))
                              THEN Upper(Get(address, "country_code", ""))
                              ELSE None,
              !.pincode = a("postcode")],
          Get(data, "display_name", "Address not available")>>

\* the loop body comparing the whole id instead of its prefix
mapbox_item_exact(acc, item) ==
    LET item_id == Get(item, "id", "")
    IN  IF item_id = "place" THEN [acc EXCEPT !.city = Get(item, "text", None)]
        ELSE IF item_id = "region"
        THEN [acc EXCEPT !.state = Get(item, "text", None)]
        ELSE IF item_id = "country"
        THEN [acc EXCEPT !.country = Get(item, "text", None),
                         !.countryCode = Upper(Get(item, "short_code", ""))]
        ELSE IF item_id = "postcode"
        THEN [acc EXCEPT !.pincode = Get(item, "text", None)]
        ELSE acc

\* one turn of the loop over context
mapbox_item(acc, item) ==
    LET item_id == Get(item, "id", "")
    IN  IF StartsWith(item_id, "place") THEN [acc EXCEPT !.city = Get(item, "text", None)]
        ELSE IF StartsWith(item_id, "region")
        THEN [acc EXCEPT !.state = Get(item, "text", None)]
        ELSE IF StartsWith(item_id, "country")
        THEN [acc EXCEPT !.country = Get(item, "text", None),
                         !.countryCode = Upper(Get(item, "short_code", ""))]
        ELSE IF StartsWith(item_id, "postcode")
        THEN [acc EXCEPT !.pincode = Get(item, "text", None)]
        ELSE acc

RECURSIVE mapbox_context(_, _)
mapbox_context(acc, context) ==
    IF context = <<>> THEN acc
    ELSE mapbox_context(mapbox_item(acc, Head(context)), Tail(context))

\* _parse_mapbox_response
parse_mapbox_response(data) ==
    LET properties == Get(data, "properties", EmptyDict)
    IN  <<mapbox_context([AddressComponents EXCEPT
                              !.street = Get(properties, "address", None)],
                         Get(data, "context", <<>>)),
          Get(data, "place_name", "Address not available")>>

---------------------------------------------------------------------------
(* app/services/geocoding.py: _create_location_data *)

\* formatted_address[:50] + "..." if len(formatted_address) > 50 else formatted_address
short_address(formatted_address) ==
    IF Len(formatted_address) > 50
    THEN SubSeq(formatted_address, 1, 50) \o "..."
    ELSE formatted_address

\* class PlaceType(str, Enum): the values of its members
PlaceType ==
    {"street_address", "establishment", "locality", "administrative",
     "point_of_interest"}

\* Address built with a place type outside the enumeration and a confidence
\* above 1
build_address_unclassified(components, formatted_address) ==
    [fullAddress |-> formatted_address,
     formattedAddress |-> formatted_address,
     shortAddress |-> formatted_address,
     components |-> components,
     coordinates |-> [latitude |-> 0, longitude |-> 0, accuracy |-> "high"],
     placeType |-> "country",
     confidence |-> 180,
     timezone |-> None]

\* confidence is kept in hundredths: 80 is 0.8
build_address(components, formatted_address) ==
    [fullAddress |-> formatted_address,
     formattedAddress |-> formatted_address,
     shortAddress |-> short_address(formatted_address),
     components |-> components,
     coordinates |-> [latitude |-> 0, longitude |-> 0, accuracy |-> "medium"],
     placeType |-> "locality",
     confidence |-> 80,
     timezone |-> None]

build_metadata(source, processing_time, t) ==
    [source |-> source, processingTime |-> processing_time,
     cached |-> FALSE, lastUpdated |-> t]

\* _create_location_data sending every raw response to the Nominatim parser
create_location_data_cross_parsed(raw_data, source, processing_time, t) ==
    LET parsed == parse_nominatim_response(raw_data)
    IN  IF parsed[2] = None THEN Raised
        ELSE Returned([address |-> build_address(parsed[1], parsed[2]),
                       metadata |-> build_metadata(source, processing_time, t)])

\* _create_location_data: Raised when formatted_address is None (len(None))
create_location_data(raw_data, source, processing_time, t) ==
    LET parsed == CASE source = "google_maps" -> parse_google_maps_response(raw_data)
                    [] source = "nominatim" -> parse_nominatim_response(raw_data)
                    [] source = "mapbox" -> parse_mapbox_response(raw_data)
                    [] OTHER -> <<AddressComponents, "Address not available">>
    IN  IF parsed[2] = None THEN Raised
        ELSE Returned([address |-> build_address(parsed[1], parsed[2]),
                       metadata |-> build_metadata(source, processing_time, t)])

\* LocationResponse(...).dict()
LocationResponse(success, data, error, lat, lng, t) ==
    [success |-> success, data |-> data, error |-> error,
     coordinates |-> [latitude |-> lat, longitude |-> lng],
     timestamp |-> t, requestId |-> None]

\* the response returned after the last provider failed
geocoding_failed(lat, lng, t) ==
    LocationResponse(FALSE, NoneRec,
                     [code |-> "GEOCODING_FAILED",
                      message |-> "All geocoding services failed"],
                     lat, lng, t)


---------------------------------------------------------------------------
(* app/services/geocoding.py: one outbound call per provider *)

\* what `await client.get(...)` can give: an exception of httpx (a timeout after
\* EXTERNAL_API_TIMEOUT seconds, a transport error) or a response
HttpTimeout == [kind |-> "timeout"]
HttpTransportError == [kind |-> "transport_error"]
HttpResponse(status_code, json) ==
    [kind |-> "response", status_code |-> status_code, json |-> json]

\* response.raise_for_status() raises
raises_for_status(response) == ~(response.status_code \in 200..299)

\* _google_maps_reverse_geocode after client.get returned `http`
google_maps_reverse_geocode(http) ==
    IF http.kind # "response" THEN Raised
    ELSE IF raises_for_status(http) THEN Raised
    ELSE LET data == http.json
         IN  IF "status" \notin DOMAIN data THEN Raised
             ELSE IF data["status"] # "OK" THEN Returned(NoneRec)
             ELSE IF "results" \notin DOMAIN data THEN Raised
             ELSE IF data["results"] # <<>> THEN Returned(data["results"][1])
             ELSE Returned(NoneRec)

\* _mapbox_reverse_geocode after client.get returned `http`
mapbox_reverse_geocode(http) ==
    IF http.kind # "response" THEN Raised
    ELSE IF raises_for_status(http) THEN Raised
    ELSE LET data == http.json
         IN  IF "features" \notin DOMAIN data THEN Raised
             ELSE IF data["features"] # <<>> THEN Returned(data["features"][1])
             ELSE Returned(NoneRec)

\* _nominatim_reverse_geocode after client.get returned `http`
nominatim_reverse_geocode(http) ==
    IF http.kind # "response" THEN Raised
    ELSE IF raises_for_status(http) THEN Raised
    ELSE LET data == http.json
         IN  IF data # EmptyDict THEN Returned(data) ELSE Returned(NoneRec)

provider_reverse_geocode(provider, http) ==
    CASE provider = "google_maps" -> google_maps_reverse_geocode(http)
      [] provider = "mapbox" -> mapbox_reverse_geocode(http)
      [] provider = "nominatim" -> nominatim_reverse_geocode(http)

---------------------------------------------------------------------------
(* The payloads the providers answer with in the model *)

GoogleResult ==
    [formatted_address |-> "MG Road, Bengaluru, Karnataka 560001, India",
     address_components |->
        <<[types |-> {"route"}, long_name |-> "MG Road", short_name |-> "MG Rd"],
          [types |-> {"locality", "political"}, long_name |-> "Bengaluru",
           short_name |-> "Bengaluru"],
          [types |-> {"country", "political"}, long_name |-> "India",
           short_name |-> "IN"],
          [types |-> {"plus_code"}, long_name |-> "XHCV+5Q", short_name |-> "XHCV+5Q"]>>]

\* a result whose formatted_address is null
GoogleResultNullAddress == [formatted_address |-> None, address_components |-> <<>>]

MapboxFeature ==
    [place_name |-> "MG Road, Bengaluru, Karnataka, India",
     properties |-> [address |-> "MG Road"],
     context |-> <<[id |-> "place.123", text |-> "Bengaluru"],
                   [id |-> "region.45", text |-> "Karnataka"],
                   [id |-> "country.6", text |-> "India", short_code |-> "in"]>>]

MapboxFeatureNullName == [place_name |-> None, properties |-> EmptyDict]

NominatimResult ==
    [display_name |-> "Mahatma Gandhi Road, Shivaji Nagar, Bengaluru, Karnataka, 560001, India",
     address |-> [road |-> "Mahatma Gandhi Road", suburb |-> "Shivaji Nagar",
                  town |-> "Bengaluru", state |-> "Karnataka",
                  country |-> "India", country_code |-> "in",
                  postcode |-> "560001"]]

NominatimNullName == [display_name |-> None]

HttpOutcomes(provider) ==
    {HttpTimeout, HttpTransportError, HttpResponse(500, EmptyDict)} \cup
    CASE provider = "google_maps" ->
            {HttpResponse(200, [status |-> "OK", results |-> <<GoogleResult>>]),
             HttpResponse(200, [status |-> "OK", results |-> <<GoogleResultNullAddress>>]),
             HttpResponse(200, [status |-> "ZERO_RESULTS", results |-> <<>>]),
             HttpResponse(200, [error_message |-> "malformed"])}
      [] provider = "mapbox" ->
            {HttpResponse(200, [features |-> <<MapboxFeature>>]),
             HttpResponse(200, [features |-> <<MapboxFeatureNullName>>]),
             HttpResponse(200, [features |-> <<>>]),
             HttpResponse(200, [message |-> "malformed"])}
      [] provider = "nominatim" ->
            {HttpResponse(200, NominatimResult),
             HttpResponse(200, NominatimNullName),
             HttpResponse(200, EmptyDict)}


---------------------------------------------------------------------------
(* app/services/geocoding.py: reverse_geocode, the fallback over the providers *)

\* the Mapbox block placed before the Google Maps block
ProviderOrderSwapped == <<"mapbox", "google_maps", "nominatim">>

\* the order of the three blocks of reverse_geocode
ProviderOrder == <<"google_maps", "mapbox", "nominatim">>

ProviderIndex(provider) ==
    CHOOSE i \in 1..Len(ProviderOrder) : ProviderOrder[i] = provider

\* the blocks without their guards
provider_enabled_always(st, provider) == TRUE

\* the guard of a provider's block: `if settings.GOOGLE_MAPS_API_KEY:`,
\* `if settings.MAPBOX_ACCESS_TOKEN:`, none for Nominatim
provider_enabled(st, provider) ==
    CASE provider = "google_maps" -> TruthyStr(st.GOOGLE_MAPS_API_KEY)
      [] provider = "mapbox" -> TruthyStr(st.MAPBOX_ACCESS_TOKEN)
      [] provider = "nominatim" -> TRUE

\* control falling into the next block whatever its guard says
next_provider_unguarded(st, i) == IF i < Len(ProviderOrder) THEN i + 1 ELSE 0

\* the block control reaches after block i (0: from the top); 0 when none is left
next_provider(st, i) ==
    LET later == {j \in (i + 1)..Len(ProviderOrder) : provider_enabled(st, ProviderOrder[j])}
    IN  IF later = {} THEN 0 ELSE CHOOSE j \in later : \A k \in later : j <= k

\* a try block whose except clause lets httpx's timeout through
attempt_outcome_timeout_propagates(provider, http, processing_time, t) ==
    LET result == provider_reverse_geocode(provider, http)
    IN  IF http = HttpTimeout THEN [kind |-> "timeout"]
        ELSE IF result.raised THEN [kind |-> "raised"]
        ELSE IF ~TruthyRec(result.value) THEN [kind |-> "absent"]
        ELSE LET location_data ==
                     create_location_data(result.value, provider, processing_time, t)
             IN  IF location_data.raised THEN [kind |-> "normalize_raised"]
                 ELSE [kind |-> "success", data |-> location_data.value]

\* the body of one try block once client.get has returned `http`
attempt_outcome(provider, http, processing_time, t) ==
    LET result == provider_reverse_geocode(provider, http)
    IN  IF result.raised THEN [kind |-> "raised"]
        ELSE IF ~TruthyRec(result.value) THEN [kind |-> "absent"]
        ELSE LET location_data ==
                     create_location_data(result.value, provider, processing_time, t)
             IN  IF location_data.raised THEN [kind |-> "normalize_raised"]
                 ELSE [kind |-> "success", data |-> location_data.value]

\* _create_location_data called after the try block instead of inside it
except_catches_fetch_only(kind) == kind = "raised"

\* `except Exception` of a provider's block catches what the try block raised
except_catches(kind) == kind \in {"raised", "normalize_raised"}

\* how an attempt ended, as the log keeps it: "success" when its result became
\* the response, "failed" when the block raised or the provider had no result
attempt_verdict(kind) == IF kind = "success" THEN "success" ELSE "failed"

---------------------------------------------------------------------------
(* The request slots *)

Reqs == 1..MaxRequests

\* the store holds an entry for the bucket of (lat, lng, language) that has not
\* expired at time t
BucketFresh(store, t, lat, lng, language) ==
    \E k \in DOMAIN store :
        /\ k = generate_cache_key(lat, lng, language)
        /\ t < store[k].expires_at

\* a location of the JSON body is <<latitude, longitude>>; one without its
\* 'latitude' key is <<longitude>>
malformed(location) == Len(location) # 2
latitude_of(location) == IF malformed(location) THEN 0 ELSE location[1]
longitude_of(location) == IF malformed(location) THEN 0 ELSE location[2]

IdleReq ==
    [pc |-> "idle", endpoint |-> None, language |-> None, locations |-> <<>>,
     item |-> <<>>, lat |-> 0, lng |-> 0, todo |-> <<>>, provider |-> None, start_time |-> 0, results |-> <<>>,
     log |-> <<>>, result |-> NoneRec]

\* The log of a request has one entry per coordinate it has taken up: whether the
\* store held an unexpired entry for its bucket when it began (fresh), whether
\* validate_coordinates was called (validated), whether cached_result was truthy
\* (hit), the provider calls issued for it in order and how each ended
\* (attempts), whether set_location was called (wrote), whether reverse_geocode
\* returned a failure (failed), and whether its result has been produced (ended).
NewEntry(rq, store, t) ==
    [item |-> rq.item, lat |-> rq.lat, lng |-> rq.lng,
     fresh |-> BucketFresh(store, t, rq.lat, rq.lng, rq.language),
     validated |-> FALSE, hit |-> FALSE, attempts |-> <<>>,
     wrote |-> FALSE, failed |-> FALSE, ended |-> FALSE]

Last(seq) == seq[Len(seq)]
SetLast(seq, v) == [seq EXCEPT ![Len(seq)] = v]

\* the entry of the coordinate in hand
Cur(rq) == Last(rq.log)
WithCur(rq, entry) == [rq EXCEPT !.log = SetLast(rq.log, entry)]

IsFastApi(endpoint) == endpoint \in {"reverse", "batch"}
IsBatch(endpoint) == endpoint \in {"batch", "handler_batch"}

\* pydantic: Field(ge=-90, le=90), Field(ge=-180, le=180)
field_in_range(lat, lng) ==
    /\ -90 * CoordUnit <= lat /\ lat <= 90 * CoordUnit
    /\ -180 * CoordUnit <= lng /\ lng <= 180 * CoordUnit

LowerLetters ==
    {"a", "b", "c", "d", "e", "f", "g", "h", "i", "j", "k", "l", "m",
     "n", "o", "p", "q", "r", "s", "t", "u", "v", "w", "x", "y", "z"}

\* pydantic: Field(pattern=r"^[a-z]{2}$")
language_matches(language) ==
    /\ Len(language) = 2
    /\ \A i \in 1..2 : SubSeq(language, i, i) \in LowerLetters

\* LocationResponse(**cached_result): the model's fields are kept, the extra
\* keys cached_at and cache_ttl are ignored
location_response_from(cached_result) ==
    [k \in {"success", "data", "error", "coordinates", "timestamp", "requestId"}
        |-> cached_result[k]]

\* what each entry point answers on a cache hit
cached_answer(endpoint, cached_result) ==
    IF IsFastApi(endpoint)
    THEN location_response_from(cached_result)
    ELSE [success |-> TRUE, data |-> cached_result, cached |-> TRUE]

\* whether the entry point stores location_response after reverse_geocode
stores_response(endpoint, location_response) ==
    IF IsFastApi(endpoint) THEN TRUE ELSE location_response.success

\* the batch answer without the entries of the coordinates that failed
BatchResponseOfSuccesses(rq, results, t) ==
    [success |-> TRUE,
     total_requests |-> Len(rq.locations),
     successful_requests |-> Cardinality({i \in 1..Len(results) : results[i].success}),
     results |-> SelectSeq(results, LAMBDA x : x.success)]

\* the batch answer counting every result as a success
BatchResponseCountingAll(rq, results, t) ==
    [success |-> TRUE,
     total_requests |-> Len(rq.locations),
     successful_requests |-> Len(results),
     results |-> results]

\* the batch answer; BatchLocationResponse adds its default timestamp, the
\* serverless handler answers a plain dict
BatchResponse(rq, results, t) ==
    LET body == [success |-> TRUE,
                 total_requests |-> Len(rq.locations),
                 successful_requests |->
                     Cardinality({i \in 1..Len(results) : results[i].success}),
                 results |-> results]
    IN  IF IsFastApi(rq.endpoint) THEN body @@ [timestamp |-> t] ELSE body

Finish(rq, status_code, body) ==
    [rq EXCEPT !.pc = "done", !.provider = None,
               !.result = [status_code |-> status_code, body |-> body]]

\* whether the entry point calls validate_coordinates for the coordinate
validates(endpoint) == endpoint # "handler_batch"

\* _batch_geocode_async: float(location['latitude']) raises KeyError on a
\* location without the key, and the item gets an INVALID_LOCATION entry
invalid_location(rq) ==
    [success |-> FALSE,
     error |-> [code |-> "INVALID_LOCATION", message |-> "'latitude'"]]

\* the request with `location` as the coordinate in hand
Taking(rq, location) ==
    [rq EXCEPT !.item = location,
               !.lat = latitude_of(location),
               !.lng = longitude_of(location)]

\* A batch item is settled when the loop body ends for it without calling a
\* provider: its location cannot be parsed, its coordinates are refused, or the
\* cache answers.  None of the three changes the store.
item_settled(rq, location, store, t) ==
    LET lat == latitude_of(location)
        lng == longitude_of(location)
    IN  \/ rq.endpoint = "handler_batch" /\ malformed(location)
        \/ validates(rq.endpoint) /\ validate_coordinates(lat, lng) # NoneRec
        \/ TruthyRec(get_location(store, t, lat, lng, rq.language))

\* the result appended for a settled item
item_settled_result(rq, location, store, t) ==
    LET lat == latitude_of(location)
        lng == longitude_of(location)
    IN  IF rq.endpoint = "handler_batch" /\ malformed(location)
        THEN invalid_location(rq)
        ELSE IF validates(rq.endpoint) /\ validate_coordinates(lat, lng) # NoneRec
        THEN LocationResponse(FALSE, NoneRec,
                              [code |-> "INVALID_COORDINATES",
                               message |-> validate_coordinates(lat, lng)],
                              lat, lng, t)
        ELSE cached_answer(rq.endpoint, get_location(store, t, lat, lng, rq.language))

\* the log entry of a settled item
item_settled_entry(rq, location, store, t) ==
    LET lat == latitude_of(location)
        lng == longitude_of(location)
        parsed == ~(rq.endpoint = "handler_batch" /\ malformed(location))
        refused == parsed /\ validates(rq.endpoint)
                       /\ validate_coordinates(lat, lng) # NoneRec
    IN  [NewEntry(Taking(rq, location), store, t) EXCEPT
            !.validated = parsed /\ validates(rq.endpoint),
            !.hit = parsed /\ ~refused,
            !.ended = TRUE]

\* the number of leading items of todo that are settled
settled_run(rq, todo, store, t) ==
    LET stops == {i \in 1..Len(todo) : ~item_settled(rq, todo[i], store, t)}
    IN  IF stops = {} THEN Len(todo)
        ELSE (CHOOSE i \in stops : \A j \in stops : i <= j) - 1

RECURSIVE start_item(_, _, _, _)
RECURSIVE item_done(_, _, _, _, _)

\* the coordinate in hand has its result: return it, or go on with the batch,
\* through the items that are settled, to the first that calls a provider
item_done(rq, store, t, st, item_result) ==
    LET closed == WithCur(rq, [Cur(rq) EXCEPT !.ended = TRUE])
    IN  IF ~IsBatch(rq.endpoint)
        THEN [req |-> Finish(closed, 200, item_result), store |-> store]
        ELSE LET k == settled_run(rq, rq.todo, store, t)
                 results == Append(rq.results, item_result)
                               \o [i \in 1..k |-> item_settled_result(rq, rq.todo[i], store, t)]
                 log == closed.log
                            \o [i \in 1..k |-> item_settled_entry(rq, rq.todo[i], store, t)]
                 rest == SubSeq(rq.todo, k + 1, Len(rq.todo))
                 moved == [(IF k = 0 THEN closed ELSE Taking(closed, rq.todo[k]))
                               EXCEPT !.results = results, !.log = log, !.todo = rest]
             IN  IF rest = <<>>
                 THEN [req |-> Finish(moved, 200, BatchResponse(rq, results, t)),
                       store |-> store]
                 ELSE LET next == [Taking(moved, Head(rest)) EXCEPT !.todo = Tail(rest)]
                      IN  start_item([next EXCEPT !.log = Append(next.log, NewEntry(next, store, t))],
                                     store, t, st)

\* the entry point's answer to a ValueError of validate_coordinates
invalid_coordinates(rq, store, t, st, error) ==
    CASE rq.endpoint = "reverse" ->
            [req |-> Finish(WithCur(rq, [Cur(rq) EXCEPT !.ended = TRUE]), 400,
                            [detail |-> error]),
             store |-> store]
      [] rq.endpoint = "handler_reverse" ->
            [req |-> Finish(WithCur(rq, [Cur(rq) EXCEPT !.ended = TRUE]), 400,
                            [success |-> FALSE,
                             error |-> [code |-> "HTTP_400", message |-> error]]),
             store |-> store]
      [] OTHER ->
            item_done(rq, store, t, st,
                      LocationResponse(FALSE, NoneRec,
                                       [code |-> "INVALID_COORDINATES", message |-> error],
                                       rq.lat, rq.lng, t))


\* one coordinate from its validation to its cache answer or its first provider call
start_item(rq, store, t, st) ==
    LET error == IF validates(rq.endpoint)
                 THEN validate_coordinates(rq.lat, rq.lng) ELSE NoneRec
        cached_result == get_location(store, t, rq.lat, rq.lng, rq.language)
        store1 == get_location_store(store, t, rq.lat, rq.lng, rq.language)
        checked == WithCur(rq, [Cur(rq) EXCEPT !.validated = validates(rq.endpoint),
                                               !.hit = TruthyRec(cached_result)])
        first == next_provider(st, 0)
    IN  IF rq.endpoint = "handler_batch" /\ malformed(rq.item)
        THEN item_done(rq, store, t, st, invalid_location(rq))
        ELSE IF error # NoneRec
        THEN invalid_coordinates(WithCur(rq, [Cur(rq) EXCEPT !.validated = TRUE]),
                                 store, t, st, error)
        ELSE IF TruthyRec(cached_result)
        THEN item_done(checked, store1, t, st, cached_answer(rq.endpoint, cached_result))
        ELSE [req |-> WithCur([checked EXCEPT !.pc = "await",
                                             !.provider = ProviderOrder[first],
                                             !.start_time = t],
                              [Cur(checked) EXCEPT !.attempts =
                                  <<[provider |-> ProviderOrder[first], outcome |-> "pending"]>>]),
              store |-> store1]

\* the entry point failing the coordinate when set_location returns False
geocode_done_write_checked(rq, store, t, st, location_response) ==
    LET stores == stores_response(rq.endpoint, location_response)
        noted == WithCur(rq, [Cur(rq) EXCEPT !.failed = ~location_response.success,
                                             !.wrote = stores])
    IN  IF stores /\ ~set_location_returns(rq.lat, rq.lng, rq.language, location_response)
        THEN item_done(noted, store, t, st,
                       [success |-> FALSE,
                        error |-> [code |-> "GEOCODING_ERROR", message |-> "raised"],
                        coordinates |-> [latitude |-> rq.lat, longitude |-> rq.lng]])
        ELSE item_done(noted,
                       IF stores
                       THEN set_location(store, t, rq.lat, rq.lng, rq.language,
                                         location_response, None)
                       ELSE store,
                       t, st, location_response)

\* reverse_geocode has returned location_response to the entry point
geocode_done(rq, store, t, st, location_response) ==
    LET stores == stores_response(rq.endpoint, location_response)
        store1 == IF stores
                  THEN set_location(store, t, rq.lat, rq.lng, rq.language,
                                    location_response, None)
                  ELSE store
        noted == WithCur(rq, [Cur(rq) EXCEPT !.failed = ~location_response.success,
                                             !.wrote = stores])
    IN  item_done(noted, store1, t, st, location_response)

\* reverse_geocode has raised to the entry point
geocode_raised(rq, store, t, st) ==
    CASE rq.endpoint = "reverse" ->
            [req |-> Finish(WithCur(rq, [Cur(rq) EXCEPT !.ended = TRUE]), 500,
                            [detail |-> "Failed to process location request"]),
             store |-> store]
      [] rq.endpoint = "batch" ->
            item_done(rq, store, t, st,
                      LocationResponse(FALSE, NoneRec,
                                       [code |-> "GEOCODING_ERROR",
                                        message |-> "Failed to process location"],
                                       rq.lat, rq.lng, t))
      [] OTHER ->
            item_done(rq, store, t, st,
                      [success |-> FALSE,
                       error |-> [code |-> "GEOCODING_ERROR", message |-> "raised"],
                       coordinates |-> [latitude |-> rq.lat, longitude |-> rq.lng]])

\* the awaited provider call has returned `http`: the rest of its block, then
\* the next block or the end of reverse_geocode
provider_returned(rq, store, t, st, http) ==
    LET outcome == attempt_outcome(rq.provider, http, t - rq.start_time, t)
        cur == Cur(rq)
        settled == WithCur(rq, [cur EXCEPT !.attempts =
                       SetLast(cur.attempts, [provider |-> rq.provider,
                                              outcome |-> attempt_verdict(outcome.kind)])])
        nxt == next_provider(st, ProviderIndex(rq.provider))
    IN  IF outcome.kind = "success"
        THEN geocode_done(settled, store, t, st,
                          LocationResponse(TRUE, outcome.data, NoneRec, rq.lat, rq.lng, t))
        ELSE IF outcome.kind # "absent" /\ ~except_catches(outcome.kind)
        THEN geocode_raised(settled, store, t, st)
        ELSE IF nxt # 0
        THEN [req |-> WithCur([settled EXCEPT !.provider = ProviderOrder[nxt]],
                              [Cur(settled) EXCEPT !.attempts =
                                  Append(Cur(settled).attempts,
                                         [provider |-> ProviderOrder[nxt],
                                          outcome |-> "pending"])]),
              store |-> store]
        ELSE geocode_done(settled, store, t, st, geocoding_failed(rq.lat, rq.lng, t))


---------------------------------------------------------------------------
(* The endpoint specification: requests against one process *)

\* Two points of one bucket; neither is a rounding tie
Lats == {1297139, 1297141}
Lngs == {7759464}
Languages == {"en", "hi"}
Coordinates == Lats \X Lngs

BatchInputs == UNION {[1..n -> Coordinates] : n \in 1..MaxBatch}

\* the clock of the endpoint specification advances by the default TTL
TickSeconds == CACHE_TTL_DEFAULT

Init ==
    /\ deployment \in {"fastapi", "serverless"}
    /\ settings \in [GOOGLE_MAPS_API_KEY : {None, "google-key"},
                     MAPBOX_ACCESS_TOKEN : {None, "mapbox-token"}]
    /\ cache_store = <<>>
    /\ now = 0
    /\ req = [r \in Reqs |-> IdleReq]
    /\ probe = NoneRec

\* a slot takes a request once the slots before it have
CanStart(r) ==
    /\ req[r].pc = "idle"
    /\ \A q \in Reqs : q < r => req[q].pc # "idle"

\* a slot takes a batch request while fewer than MaxBatchRequests have been made
CanStartBatch(r) ==
    /\ CanStart(r)
    /\ Cardinality({q \in Reqs : IsBatch(req[q].endpoint)}) < MaxBatchRequests

Incoming(endpoint, locations, language) ==
    LET rq == [IdleReq EXCEPT !.endpoint = endpoint, !.language = language,
                              !.locations = locations,
                              !.item = locations[1],
                              !.lat = latitude_of(locations[1]),
                              !.lng = longitude_of(locations[1]),
                              !.todo = Tail(locations)]
    IN  [rq EXCEPT !.log = <<NewEntry(rq, cache_store, now)>>]

Run(r, out) ==
    /\ req' = [req EXCEPT ![r] = out.req]
    /\ cache_store' = out.store
    /\ UNCHANGED <<deployment, settings, now, probe>>

\* pydantic: List[Coordinates] = Field(..., max_items=100), each item with both
\* fields, in range
locations_valid(locations) ==
    /\ Len(locations) <= 100
    /\ \A i \in 1..Len(locations) :
           /\ ~malformed(locations[i])
           /\ field_in_range(locations[i][1], locations[i][2])

\* the batch endpoints with their own size test removed
batch_too_large_unchecked(locations) == FALSE

\* if len(locations) > 100 in both batch endpoints
batch_too_large(locations) == Len(locations) > 100

\* POST /api/v1/location/reverse of the FastAPI app
Reverse(r, lat, lng, language) ==
    /\ deployment = "fastapi"
    /\ CanStart(r)
    /\ LET rq == Incoming("reverse", <<<<lat, lng>>>>, language)
       IN  IF field_in_range(lat, lng) /\ language_matches(language)
           THEN Run(r, start_item(rq, cache_store, now, settings))
           ELSE Run(r, [req |-> Finish([rq EXCEPT !.log = <<>>], 422,
                                       [detail |-> "validation error"]),
                        store |-> cache_store])

\* POST /api/v1/location/reverse/batch of the FastAPI app
BatchReverse(r, locations, language) ==
    /\ deployment = "fastapi"
    /\ CanStartBatch(r)
    /\ LET rq == Incoming("batch", locations, language)
       IN  IF ~(locations_valid(locations) /\ language_matches(language))
           THEN Run(r, [req |-> Finish([rq EXCEPT !.log = <<>>], 422,
                                       [detail |-> "validation error"]),
                        store |-> cache_store])
           ELSE IF batch_too_large(locations)
           THEN Run(r, [req |-> Finish([rq EXCEPT !.log = <<>>], 400,
                                       [detail |-> "Batch size cannot exceed 100 locations"]),
                        store |-> cache_store])
           ELSE Run(r, start_item(rq, cache_store, now, settings))

\* POST /api/v1/location/reverse of the serverless handler
HandlerReverse(r, lat, lng, language) ==
    /\ deployment = "serverless"
    /\ CanStart(r)
    /\ Run(r, start_item(Incoming("handler_reverse", <<<<lat, lng>>>>, language),
                         cache_store, now, settings))

\* POST /api/v1/location/reverse/batch of the serverless handler
HandlerBatch(r, locations, language) ==
    /\ deployment = "serverless"
    /\ CanStartBatch(r)
    /\ LET rq == Incoming("handler_batch", locations, language)
       IN  IF batch_too_large(locations)
           THEN Run(r, [req |-> Finish([rq EXCEPT !.log = <<>>], 400,
                                       [success |-> FALSE,
                                        error |-> [code |-> "HTTP_400",
                                                   message |-> "Maximum 100 locations allowed"]]),
                        store |-> cache_store])
           ELSE Run(r, start_item(rq, cache_store, now, settings))

\* the provider call a request awaits returns
ProviderResponds(r) ==
    /\ req[r].pc = "await"
    /\ \E http \in HttpOutcomes(req[r].provider) :
           Run(r, provider_returned(req[r], cache_store, now, settings, http))

\* time passes
Tick ==
    /\ now < MaxTicks * TickSeconds
    /\ now' = now + TickSeconds
    /\ UNCHANGED <<deployment, settings, cache_store, req, probe>>

Next ==
    \/ \E r \in Reqs, lat \in Lats, lng \in Lngs, language \in Languages :
           Reverse(r, lat, lng, language)
    \/ \E r \in Reqs, locations \in BatchInputs, language \in Languages :
           BatchReverse(r, locations, language)
    \/ \E r \in Reqs, lat \in Lats, lng \in Lngs, language \in Languages :
           HandlerReverse(r, lat, lng, language)
    \/ \E r \in Reqs, locations \in BatchInputs, language \in Languages :
           HandlerBatch(r, locations, language)
    \/ \E r \in Reqs : ProviderResponds(r)
    \/ Tick

Spec == Init /\ [][Next]_vars


---------------------------------------------------------------------------
(* What the claims read *)

\* the log entries of request r, by position
Items(r) == DOMAIN req[r].log

\* the result produced for the coordinate at position i of request r
ItemResult(r, i) ==
    IF IsBatch(req[r].endpoint) THEN req[r].results[i] ELSE req[r].result.body

IsSingle(r) == req[r].endpoint \in {"reverse", "handler_reverse"}

\* request r is finished and was answered with status 200
Answered(r) == req[r].pc = "done" /\ req[r].result.status_code = 200

Outcomes(entry) == {entry.attempts[j].outcome : j \in DOMAIN entry.attempts}
Called(entry) == {entry.attempts[j].provider : j \in DOMAIN entry.attempts}

IsGeocodingFailed(result) ==
    /\ "success" \in DOMAIN result /\ ~result.success
    /\ "error" \in DOMAIN result /\ result.error # NoneRec
    /\ result.error.code = "GEOCODING_FAILED"

\* the position of a provider in the order the spec gives: Google Maps, Mapbox, Nominatim
Rank(provider) ==
    CASE provider = "google_maps" -> 1
      [] provider = "mapbox" -> 2
      [] provider = "nominatim" -> 3

---------------------------------------------------------------------------
(* C1: a request, or a batch item, whose bucket holds an unexpired cache entry
   when it is taken up completes without any provider call. *)
C1_HitSkipsProviders ==
    \A r \in Reqs : \A i \in Items(r) :
        req[r].log[i].fresh =>
            /\ req[r].log[i].attempts = <<>>
            /\ req[r].log[i].ended
            /\ req[r].pc # "await" \/ i < Len(req[r].log)

\* a batch whose second coordinate is answered from the entry its first one wrote,
\* and a single request answered from an entry
C1_Witness ==
    /\ \E r \in Reqs : /\ IsBatch(req[r].endpoint) /\ req[r].pc = "done"
                       /\ Len(req[r].log) = 2
                       /\ ~req[r].log[1].fresh /\ req[r].log[2].fresh
    /\ \E r \in Reqs : IsSingle(r) /\ req[r].pc = "done" /\ req[r].log[1].fresh

---------------------------------------------------------------------------
(* C2: a result answered from a cache entry reports metadata.cached = true, and
   a result produced by a provider reports metadata.cached = false.  The code
   stores the provider's response as it is and returns it unchanged, so the
   flag stays false: the claim is violated. *)

\* the metadata of the address data a result carries, NoneRec when it carries none
MetadataOf(body) ==
    IF "data" \notin DOMAIN body \/ body.data = NoneRec THEN NoneRec
    ELSE IF "metadata" \in DOMAIN body.data THEN body.data.metadata
    ELSE IF "data" \notin DOMAIN body.data \/ body.data.data = NoneRec THEN NoneRec
    ELSE IF "metadata" \in DOMAIN body.data.data THEN body.data.data.metadata
    ELSE NoneRec

C2_CachedFlagReported ==
    \A r \in Reqs :
        (IsSingle(r) /\ Answered(r) /\ MetadataOf(req[r].result.body) # NoneRec) =>
            (MetadataOf(req[r].result.body).cached <=> req[r].log[1].hit)

---------------------------------------------------------------------------
(* C3: when a call that succeeded through a provider is followed, before the
   entry expires, by a call with the same (lat, lng, language) and no other
   request has written to the store, the second result has the shape of the
   first and the same address content.  The serverless handler answers a hit
   with {success, data: <the whole cached response>, cached}: violated. *)

SameArguments(q, r) ==
    /\ req[q].endpoint = req[r].endpoint
    /\ req[q].locations = req[r].locations
    /\ req[q].language = req[r].language

\* q was answered by a provider and wrote the entry; r was answered from it
FirstThenSecond(q, r) ==
    /\ q # r /\ IsSingle(q) /\ IsSingle(r) /\ Answered(q) /\ Answered(r)
    /\ SameArguments(q, r)
    /\ ~req[q].log[1].hit /\ req[q].log[1].wrote /\ ~req[q].log[1].failed
    /\ req[r].log[1].hit
    /\ \A p \in Reqs \ {q, r} : \A i \in Items(p) : ~req[p].log[i].wrote

HasAddress(body) ==
    /\ "data" \in DOMAIN body /\ body.data # NoneRec
    /\ "address" \in DOMAIN body.data

C3_SecondCallSameShapeAndAddress ==
    \A q, r \in Reqs :
        FirstThenSecond(q, r) =>
            /\ DOMAIN req[r].result.body = DOMAIN req[q].result.body
            /\ HasAddress(req[r].result.body)
            /\ req[r].result.body.data.address = req[q].result.body.data.address

---------------------------------------------------------------------------
(* C4: for every coordinate the providers are called in the order Google Maps,
   Mapbox, Nominatim; every attempt before the last one failed (its block raised
   or the provider had no result); a successful attempt is the last one and ends
   the coordinate. *)
C4_ProvidersInOrder ==
    \A r \in Reqs : \A i \in Items(r) :
        LET a == req[r].log[i].attempts
        IN  /\ \A j, k \in DOMAIN a : j < k => Rank(a[j].provider) < Rank(a[k].provider)
            /\ \A j \in DOMAIN a : j < Len(a) => a[j].outcome = "failed"
            /\ \A j \in DOMAIN a : a[j].outcome = "success" => req[r].log[i].ended
            /\ \A j \in DOMAIN a : a[j].outcome = "pending" =>
                   req[r].pc = "await" /\ i = Len(req[r].log)

\* Google Maps failed, Mapbox had no success either, Nominatim succeeded
C4_Witness ==
    \E r \in Reqs : \E i \in Items(r) :
        req[r].log[i].attempts =
            <<[provider |-> "google_maps", outcome |-> "failed"],
              [provider |-> "mapbox", outcome |-> "failed"],
              [provider |-> "nominatim", outcome |-> "success"]>>

---------------------------------------------------------------------------
(* C5: Google Maps is called only when GOOGLE_MAPS_API_KEY is set and Mapbox
   only when MAPBOX_ACCESS_TOKEN is set; with only the Mapbox token set and
   Mapbox succeeding, Mapbox is the only provider called and the result's
   source is "mapbox". *)
OnlyMapboxConfigured ==
    ~TruthyStr(settings.GOOGLE_MAPS_API_KEY) /\ TruthyStr(settings.MAPBOX_ACCESS_TOKEN)

MapboxSucceeded(entry) ==
    \E j \in DOMAIN entry.attempts :
        entry.attempts[j] = [provider |-> "mapbox", outcome |-> "success"]

C5_UnconfiguredNeverCalled ==
    \A r \in Reqs : \A i \in Items(r) :
        LET entry == req[r].log[i]
        IN  /\ "google_maps" \in Called(entry) => TruthyStr(settings.GOOGLE_MAPS_API_KEY)
            /\ "mapbox" \in Called(entry) => TruthyStr(settings.MAPBOX_ACCESS_TOKEN)
            /\ (OnlyMapboxConfigured /\ MapboxSucceeded(entry)) =>
                   /\ Called(entry) = {"mapbox"}
                   /\ ItemResult(r, i).success
                   /\ ItemResult(r, i).data.metadata.source = "mapbox"

C5_Witness ==
    /\ OnlyMapboxConfigured
    /\ \E r \in Reqs : \E i \in Items(r) :
           MapboxSucceeded(req[r].log[i]) /\ req[r].log[i].ended

---------------------------------------------------------------------------
(* C6: when every provider called for a coordinate failed (raised in any way,
   or had no result), reverse_geocode returns, without raising, the failure
   with code GEOCODING_FAILED, and that is the coordinate's result. *)
AllAttemptsFailed(entry) ==
    /\ entry.attempts # <<>>
    /\ Outcomes(entry) = {"failed"}
    /\ entry.ended

C6_AllFailedGivesGeocodingFailed ==
    \A r \in Reqs : \A i \in Items(r) :
        AllAttemptsFailed(req[r].log[i]) =>
            /\ req[r].log[i].failed
            /\ req[r].pc = "done" => req[r].result.status_code = 200
            /\ IsGeocodingFailed(ItemResult(r, i))

\* all three providers were called and failed
C6_Witness ==
    \E r \in Reqs : \E i \in Items(r) :
        /\ AllAttemptsFailed(req[r].log[i])
        /\ Len(req[r].log[i].attempts) = 3
        /\ IsGeocodingFailed(ItemResult(r, i))

---------------------------------------------------------------------------
(* C7, as claimed: with neither the Google Maps key nor the Mapbox token set,
   every answered request is the failure GEOCODING_FAILED.  Nominatim needs no
   credential and is still called, so the claim is violated when it succeeds. *)
NoCredentials ==
    ~TruthyStr(settings.GOOGLE_MAPS_API_KEY) /\ ~TruthyStr(settings.MAPBOX_ACCESS_TOKEN)

C7_NoCredentialsAlwaysFails ==
    NoCredentials =>
        \A r \in Reqs : \A i \in Items(r) :
            (req[r].log[i].ended /\ ~req[r].log[i].hit) =>
                IsGeocodingFailed(ItemResult(r, i))

(* C7, amended: with neither credential set, Nominatim is the only provider
   called, and the coordinate's result is the failure GEOCODING_FAILED exactly
   when the Nominatim attempt failed. *)
C7_NoCredentialsOnlyNominatim ==
    NoCredentials =>
        \A r \in Reqs : \A i \in Items(r) :
            LET entry == req[r].log[i]
            IN  /\ Called(entry) \subseteq {"nominatim"}
                /\ (entry.ended /\ ~entry.hit) =>
                       /\ Len(entry.attempts) = 1
                       /\ IsGeocodingFailed(ItemResult(r, i))
                              <=> entry.attempts[1].outcome = "failed"

\* both ends are reached: Nominatim failing and Nominatim succeeding
C7_Witness ==
    /\ NoCredentials
    /\ \E r \in Reqs : \E i \in Items(r) :
           /\ req[r].log[i].ended
           /\ req[r].log[i].attempts = <<[provider |-> "nominatim", outcome |-> "failed"]>>
           /\ IsGeocodingFailed(ItemResult(r, i))
    /\ \E r \in Reqs : \E i \in Items(r) :
           /\ req[r].log[i].ended
           /\ req[r].log[i].attempts = <<[provider |-> "nominatim", outcome |-> "success"]>>
           /\ ItemResult(r, i).success

---------------------------------------------------------------------------
(* C8: in the step in which a coordinate's geocoding ends in the failure
   GEOCODING_FAILED, no cache entry is written: every entry of the store after
   the step was there, unchanged, before it.  /reverse and /reverse/batch call
   set_location whatever the response is: violated. *)
FailsInThisStep(r) ==
    /\ req[r].pc = "await"
    /\ req'[r].log[Len(req[r].log)].failed

NoEntryWritten ==
    \A k \in DOMAIN cache_store' :
        k \in DOMAIN cache_store /\ cache_store'[k] = cache_store[k]

C8_FailureWritesNoEntry ==
    [][\A r \in Reqs : FailsInThisStep(r) => NoEntryWritten]_vars

---------------------------------------------------------------------------
(* The key specification: one set_location, then one get_location at the same
   instant, over a grid of coordinates around bucket borders *)

\* latitudes and longitudes on both sides of a bucket border, of both signs
KeyLats == {1297134, 1297139, 1297141, 1297146, -3385871, -3385868}
KeyLngs == {7759461, 7759464, 7759466, 7759469, -7400604, -7400596}

\* the data test_cache_service stores
CacheTestData == [test |-> "data", cached |-> TRUE]

KeyInit ==
    /\ deployment = "serverless"
    /\ settings = [GOOGLE_MAPS_API_KEY |-> None, MAPBOX_ACCESS_TOKEN |-> None]
    /\ cache_store = <<>>
    /\ now = 0
    /\ req = [r \in Reqs |-> IdleReq]
    /\ probe = [phase |-> "start"]

\* await cache.set_location(lat, lng, language, test_data)
KeyStore(lat, lng, language) ==
    /\ probe.phase = "start"
    /\ cache_store' = set_location(cache_store, now, lat, lng, language, CacheTestData, None)
    /\ probe' = [phase |-> "stored", stored |-> <<lat, lng, language>>]
    /\ UNCHANGED <<deployment, settings, now, req>>

\* result = await cache.get_location(lat, lng, language)
KeyLookup(lat, lng, language) ==
    /\ probe.phase = "stored"
    /\ cache_store' = get_location_store(cache_store, now, lat, lng, language)
    /\ probe' = [phase |-> "looked", stored |-> probe.stored,
                 looked |-> <<lat, lng, language>>,
                 found |-> get_location(cache_store, now, lat, lng, language)]
    /\ UNCHANGED <<deployment, settings, now, req>>

KeyNext ==
    \/ \E lat \in KeyLats, lng \in KeyLngs, language \in Languages :
           KeyStore(lat, lng, language)
    \/ \E lat \in KeyLats, lng \in KeyLngs, language \in Languages :
           KeyLookup(lat, lng, language)

SpecKey == KeyInit /\ [][KeyNext]_vars

\* a and b, in coordinate units, have the same nearest multiple of ten: they
\* round to the same value at CACHE_PRECISION decimals
SameRounded(a, b) ==
    \E q \in ((a \div 10) - 1)..((a \div 10) + 1) :
        /\ 2 * (a - 10 * q) < 10 /\ 2 * (10 * q - a) < 10
        /\ 2 * (b - 10 * q) < 10 /\ 2 * (10 * q - b) < 10

---------------------------------------------------------------------------
(* C9, as claimed: after a result is stored for (12.97139, 77.59464), a lookup
   for (12.97141, 77.59466) in the same language is a hit.  77.59464 rounds to
   77.5946 and 77.59466 to 77.5947: the keys differ and the lookup is a miss. *)
C9_ExamplePairHits ==
    (/\ probe.phase = "looked"
     /\ probe.stored[1] = 1297139 /\ probe.stored[2] = 7759464
     /\ probe.looked[1] = 1297141 /\ probe.looked[2] = 7759466
     /\ probe.stored[3] = probe.looked[3])
        => probe.found # NoneRec

(* C9, amended: a lookup right after a store is a hit exactly when the
   language is the same and latitude and longitude each round to the same
   4-decimal value as the stored ones; so the lookup of (12.97141, 77.59466)
   after storing (12.97139, 77.59464) is a miss, and that of
   (12.97141, 77.59461) is a hit. *)
C9_HitIffSameRounded ==
    probe.phase = "looked" =>
        /\ probe.found # NoneRec <=>
               /\ SameRounded(probe.stored[1], probe.looked[1])
               /\ SameRounded(probe.stored[2], probe.looked[2])
               /\ probe.stored[3] = probe.looked[3]
        /\ (/\ probe.stored[1] = 1297139 /\ probe.stored[2] = 7759464
            /\ probe.looked[1] = 1297141 /\ probe.stored[3] = probe.looked[3]) =>
               /\ probe.looked[2] = 7759466 => probe.found = NoneRec
               /\ probe.looked[2] = 7759461 => probe.found # NoneRec

\* the pair of the claim has been stored and looked up, and missed
C9_Witness ==
    /\ probe.phase = "looked"
    /\ probe.stored = <<1297139, 7759464, "en">>
    /\ probe.looked = <<1297141, 7759466, "en">>
    /\ probe.found = NoneRec
    /\ generate_cache_key(1297139, 7759464, "en")[2]
           = generate_cache_key(1297141, 7759466, "en")[2]

---------------------------------------------------------------------------
(* The cache specification: CacheService called directly, with a clock that
   moves to the instants around the expiry of the stored entries *)

\* the number of set_location and get_location calls of one behaviour
MaxOps == 3

CacheLats == {1297139, 1297146}
\* the members of PlaceType, a string that is none of them, "" and None
CachePlaceTypes ==
    {"street_address", "locality", "administrative", "establishment",
     "point_of_interest", "country", "", None}

\* location_response.dict() of a success, as the entry points store it
CacheResponseData ==
    LocationResponse(TRUE,
                     create_location_data(NominatimResult, "nominatim", 0, 0).value,
                     NoneRec, 1297139, 7759464, 0)

\* the set_location calls made: every place type on one bucket, a locality on
\* another, a latitude no key can be built from, data that is None, and a
\* response stored the way the entry points store it
CacheSetInputs ==
    {<<1297139, place_type, CacheTestData>> : place_type \in CachePlaceTypes}
        \cup {<<1297146, "locality", CacheTestData>>,
              <<Infinity, "locality", CacheTestData>>,
              <<1297139, "locality", NoneRec>>,
              <<1297139, None, CacheResponseData>>}

CacheInit ==
    /\ deployment = "serverless"
    /\ settings = [GOOGLE_MAPS_API_KEY |-> None, MAPBOX_ACCESS_TOKEN |-> None]
    /\ cache_store = <<>>
    /\ now = 0
    /\ req = [r \in Reqs |-> IdleReq]
    /\ probe = [ops |-> <<>>]

\* await cache.set_location(lat, lng, language, data, place_type)
CacheSet(lat, place_type, data) ==
    /\ Len(probe.ops) < MaxOps
    /\ cache_store' = set_location(cache_store, now, lat, 7759464, "en",
                                   data, place_type)
    /\ probe' = [ops |-> Append(probe.ops,
                     [op |-> "set", lat |-> lat, at |-> now, place_type |-> place_type,
                      data |-> data, before |-> cache_store,
                      returned |-> set_location_returns(lat, 7759464, "en", data)])]
    /\ UNCHANGED <<deployment, settings, now, req>>

\* await cache.get_location(lat, lng, language)
CacheGet(lat) ==
    /\ Len(probe.ops) < MaxOps
    /\ cache_store' = get_location_store(cache_store, now, lat, 7759464, "en")
    /\ probe' = [ops |-> Append(probe.ops,
                     [op |-> "get", lat |-> lat, at |-> now, before |-> cache_store,
                      found |-> get_location(cache_store, now, lat, 7759464, "en")])]
    /\ UNCHANGED <<deployment, settings, now, req>>

\* datetime.utcnow() moves to one second before, to, or one second past the
\* expiry of an entry of the store
CacheTick ==
    /\ \E k \in DOMAIN cache_store : \E d \in {-1, 0, 1} :
           /\ cache_store[k].expires_at + d > now
           /\ now' = cache_store[k].expires_at + d
    /\ UNCHANGED <<deployment, settings, cache_store, req, probe>>

CacheNext ==
    \/ \E input \in CacheSetInputs : CacheSet(input[1], input[2], input[3])
    \/ \E lat \in CacheLats \cup {Infinity} : CacheGet(lat)
    \/ CacheTick

SpecCache == CacheInit /\ [][CacheNext]_vars

\* the set_location calls before the j-th call that stored into the bucket
\* the j-th call reads
SetsBefore(j) ==
    {i \in 1..(j - 1) :
        /\ probe.ops[i].op = "set"
        /\ probe.ops[i].lat # Infinity /\ probe.ops[i].data # NoneRec
        /\ SameRounded(probe.ops[i].lat, probe.ops[j].lat)}

\* the last of them
LastSetBefore(j) == CHOOSE i \in SetsBefore(j) : \A k \in SetsBefore(j) : k <= i

SevenDays == 7 * 24 * 3600

---------------------------------------------------------------------------
(* C10: an entry stored with place type locality at time T, and not stored
   again, is returned by get_location at every t with T <= t < T + 7 days and
   is absent at every t >= T + 7 days. *)
C10_LocalityTtlBoundary ==
    \A j \in 1..Len(probe.ops) :
        (/\ probe.ops[j].op = "get"
         /\ SetsBefore(j) # {}
         /\ probe.ops[LastSetBefore(j)].place_type = "locality") =>
            LET T == probe.ops[LastSetBefore(j)].at
                t == probe.ops[j].at
            IN  /\ t < T + SevenDays =>
                       /\ probe.ops[j].found # NoneRec
                       /\ probe.ops[j].found.test = CacheTestData.test
                /\ t >= T + SevenDays => probe.ops[j].found = NoneRec

\* a locality entry stored at T is read one second before T + 7 days, and
\* found, then at T + 7 days, and not found
C10_Witness ==
    /\ Len(probe.ops) = 3
    /\ probe.ops[1].op = "set" /\ probe.ops[1].place_type = "locality"
    /\ probe.ops[2].op = "get" /\ probe.ops[2].lat = probe.ops[1].lat
    /\ probe.ops[2].at = probe.ops[1].at + SevenDays - 1
    /\ probe.ops[2].found # NoneRec
    /\ probe.ops[3].op = "get" /\ probe.ops[3].lat = probe.ops[1].lat
    /\ probe.ops[3].at = probe.ops[1].at + SevenDays
    /\ probe.ops[3].found = NoneRec

---------------------------------------------------------------------------
\* the TTL table as documented, in seconds: 24 hours, 7 days, 30 days
Hours(n) == n * 3600
Days(n) == n * Hours(24)
DocumentedTtl(place_type) ==
    CASE place_type \in {"street_address", "establishment", "point_of_interest"} -> Hours(24)
      [] place_type = "locality" -> Days(7)
      [] place_type = "administrative" -> Days(30)
      [] OTHER -> Hours(24)

(* C11: every cache entry written by a geocode request for a successful result
   expires at its insertion time plus the TTL of the place type of the address
   it holds.  The endpoints call set_location without a place type, so every
   entry gets the default TTL of 24 hours while its address is a locality
   (7 days). *)
C11_ExpiryFollowsPlaceType ==
    \A k \in DOMAIN cache_store :
        cache_store[k].data.success =>
            cache_store[k].expires_at =
                cache_store[k].data.cached_at
                    + DocumentedTtl(cache_store[k].data.data.address.placeType)

---------------------------------------------------------------------------
(* C12: set_location gives an entry the TTL of the fixed table: 24 hours for
   street_address, establishment and point_of_interest, 7 days for locality,
   30 days for administrative, and the default of 24 hours for an unknown or
   missing place type. *)
C12_TtlTable ==
    \A j \in 1..Len(probe.ops) :
        (/\ probe.ops[j].op = "set"
         /\ probe.ops[j].lat # Infinity /\ probe.ops[j].data # NoneRec
         /\ j = Len(probe.ops)) =>
            LET key == generate_cache_key(probe.ops[j].lat, 7759464, "en")
                ttl == DocumentedTtl(probe.ops[j].place_type)
            IN  /\ key \in DOMAIN cache_store
                /\ cache_store[key].expires_at = probe.ops[j].at + ttl
                /\ cache_store[key].data.cache_ttl = ttl
                /\ ttl \in {86400, 604800, 2592000}
                /\ probe.ops[j].place_type \in {"country", "", None} =>
                       ttl = CACHE_TTL_DEFAULT

\* an administrative entry stored after time has passed expires 30 days later
C12_Witness ==
    /\ Len(probe.ops) >= 2
    /\ probe.ops[Len(probe.ops)].op = "set"
    /\ probe.ops[Len(probe.ops)].place_type = "administrative"
    /\ probe.ops[Len(probe.ops)].at > 0
    /\ \E k \in DOMAIN cache_store :
           cache_store[k].expires_at = probe.ops[Len(probe.ops)].at + 2592000

(* C13: no CacheService operation raises to its caller: get_location returns
   None and set_location returns False when their body raises, and they leave
   the store as it was. *)
C13_CacheNeverRaises ==
    \A j \in 1..Len(probe.ops) :
        LET o == probe.ops[j]
            after == IF j < Len(probe.ops) THEN probe.ops[j + 1].before ELSE cache_store
        IN  /\ o.op = "get" =>
                /\ o.found # Raised
                /\ o.lat = Infinity => o.found = NoneRec
            /\ o.op = "set" =>
                /\ o.returned \in BOOLEAN
                /\ o.returned = (o.lat # Infinity /\ o.data # NoneRec)
            /\ (o.lat = Infinity \/ (o.op = "set" /\ o.data = NoneRec)) =>
                   after = o.before

\* after an entry was stored, a read and a write have failed inside the service
C13_Witness ==
    /\ cache_store # <<>>
    /\ \E i, k \in 1..Len(probe.ops) :
           /\ probe.ops[i].op = "get" /\ probe.ops[i].lat = Infinity
           /\ probe.ops[i].found = NoneRec
           /\ probe.ops[k].op = "set" /\ probe.ops[k].data = NoneRec
           /\ ~probe.ops[k].returned
---------------------------------------------------------------------------
(* The input specification: the endpoints given out-of-range, non-finite and
   malformed coordinates, a language that is no two-letter lowercase code, and
   batches at and over the size limit *)

\* latitude 95 and longitude 181, in coordinate units
InputCoordinates ==
    {<<1297139, 7759464>>, <<9500000, 7759464>>, <<1297139, 18100000>>}
InputLanguages == {"en", "EN"}

Repeat(x, n) == [i \in 1..n |-> x]

\* three coordinates of which the second is out of range, lacks its latitude
\* or is infinite; one coordinate 100 times and 101 times
InputBatches ==
    {<<<<1297139, 7759464>>, <<9500000, 7759464>>, <<1297146, 7759464>>>>,
     <<<<1297139, 7759464>>, <<7759464>>, <<1297146, 7759464>>>>,
     <<<<1297139, 7759464>>, <<Infinity, 7759464>>, <<1297146, 7759464>>>>,
     Repeat(<<1297139, 7759464>>, 100),
     Repeat(<<1297139, 7759464>>, 101)}

\* no request is waiting for a provider: the requests of this specification
\* arrive one after the other
Quiet == \A r \in Reqs : req[r].pc # "await"

InputNext ==
    \/ \E r \in Reqs, c \in InputCoordinates, language \in InputLanguages :
           Quiet /\ Reverse(r, c[1], c[2], language)
    \/ \E r \in Reqs, locations \in InputBatches, language \in InputLanguages :
           Quiet /\ BatchReverse(r, locations, language)
    \/ \E r \in Reqs, c \in InputCoordinates, language \in InputLanguages :
           Quiet /\ HandlerReverse(r, c[1], c[2], language)
    \/ \E r \in Reqs, locations \in InputBatches, language \in InputLanguages :
           Quiet /\ HandlerBatch(r, locations, language)
    \/ \E r \in Reqs : ProviderResponds(r)
    \/ Quiet /\ Tick

\* either deployment, with no credential or with the Google Maps key only
InputInit ==
    /\ deployment \in {"fastapi", "serverless"}
    /\ settings \in [GOOGLE_MAPS_API_KEY : {None, "google-key"},
                     MAPBOX_ACCESS_TOKEN : {None}]
    /\ cache_store = <<>>
    /\ now = 0
    /\ req = [r \in Reqs |-> IdleReq]
    /\ probe = NoneRec

SpecInput == InputInit /\ [][InputNext]_vars

---------------------------------------------------------------------------
(* C14: a cache failure never fails the request.  A coordinate whose cache
   read fails (no key can be built from an infinite latitude) is treated as a
   miss and the providers are tried; when a provider succeeds and the cache
   write fails, the caller still gets that provider's success. *)
C14_CacheFailureNeverFailsRequest ==
    \A r \in Reqs : \A i \in Items(r) :
        LET e == req[r].log[i]
        IN  (e.item # <<>> /\ e.lat = Infinity) =>
                /\ ~e.hit
                /\ e.attempts # <<>>
                /\ e.ended =>
                       /\ "success" \in Outcomes(e) =>
                              /\ e.wrote
                              /\ ItemResult(r, i).success
                              /\ ItemResult(r, i).data # NoneRec
                              /\ ItemResult(r, i).data.metadata.source
                                     = e.attempts[Len(e.attempts)].provider
                       /\ "success" \notin Outcomes(e) => IsGeocodingFailed(ItemResult(r, i))
                /\ req[r].pc = "done" => req[r].result.status_code = 200

\* a batch answered with the success of a provider for its infinite latitude,
\* the write of which failed
C14_Witness ==
    \E r \in Reqs :
        /\ Answered(r)
        /\ Len(req[r].log) = 3
        /\ req[r].log[2].lat = Infinity
        /\ req[r].log[2].wrote
        /\ "success" \in Outcomes(req[r].log[2])
        /\ req[r].results[2].success
        /\ \A k \in DOMAIN cache_store : cache_store[k].data.coordinates.latitude # Infinity

---------------------------------------------------------------------------
(* C15: a batch of three coordinates whose second has latitude 95 is answered
   with total_requests = 3, a failure entry with code INVALID_COORDINATES at
   position 2 for which no provider was called, and results for items 1 and 3.
   The FastAPI app refuses the whole request with 422; the serverless handler
   does not validate the coordinate and sends it to the providers. *)
C15_InvalidItemGetsOwnEntry ==
    \A r \in Reqs :
        (/\ req[r].pc = "done"
         /\ IsBatch(req[r].endpoint)
         /\ Len(req[r].locations) = 3
         /\ req[r].locations[2] = <<9500000, 7759464>>
         /\ req[r].language = "en") =>
            /\ req[r].result.status_code = 200
            /\ req[r].result.body.total_requests = 3
            /\ Len(req[r].result.body.results) = 3
            /\ ~req[r].result.body.results[2].success
            /\ req[r].result.body.results[2].error.code = "INVALID_COORDINATES"
            /\ Len(req[r].log) = 3
            /\ req[r].log[2].attempts = <<>>

---------------------------------------------------------------------------
\* request r is taken up in this step, by a batch endpoint
BatchArrives(r) ==
    req[r].pc = "idle" /\ req'[r].pc # "idle" /\ IsBatch(req'[r].endpoint)

(* C16: a batch of more than 100 coordinates is refused with a validation
   error before any per-item work: no cache read, no cache write, no provider
   call; a batch of exactly 100 well-formed coordinates is taken up. *)
C16_OversizeBatchRejected ==
    [][\A r \in Reqs : BatchArrives(r) =>
          /\ Len(req'[r].locations) > 100 =>
                 /\ req'[r].pc = "done"
                 /\ req'[r].result.status_code \in {400, 422}
                 /\ req'[r].log = <<>> /\ req'[r].results = <<>>
                 /\ cache_store' = cache_store
          /\ (Len(req'[r].locations) = 100 /\ language_matches(req'[r].language)) =>
                 /\ req'[r].log # <<>>
                 /\ \/ req'[r].pc = "await"
                    \/ /\ req'[r].result.status_code = 200
                       /\ Len(req'[r].result.body.results) = 100]_vars

\* a batch of 101 has been refused by the serverless handler while the store
\* held an entry
C16_Witness ==
    \E r \in Reqs :
        /\ req[r].pc = "done"
        /\ req[r].endpoint = "handler_batch"
        /\ Len(req[r].locations) = 101
        /\ req[r].result.status_code = 400
        /\ req[r].log = <<>>
        /\ cache_store # <<>>

---------------------------------------------------------------------------
\* request r is a batch that was taken up and has been answered
BatchAnswered(r) ==
    req[r].pc = "done" /\ IsBatch(req[r].endpoint) /\ req[r].log # <<>>

\* result is the entry of the coordinate logged as e
ResultOf(result, e) ==
    IF malformed(e.item)
    THEN ~result.success /\ result.error.code = "INVALID_LOCATION"
    ELSE IF e.hit
    THEN /\ e.attempts = <<>>
         /\ LET stored == IF "cached" \in DOMAIN result
                          THEN result.data.coordinates ELSE result.coordinates
            IN  /\ SameRounded(stored.latitude, e.item[1])
                /\ SameRounded(stored.longitude, e.item[2])
    ELSE /\ e.attempts # <<>>
         /\ result.success <=> "success" \in Outcomes(e)
         /\ ~result.success => result.error.code = "GEOCODING_FAILED"
         /\ result.coordinates = [latitude |-> e.item[1], longitude |-> e.item[2]]

(* C17: the answer to an accepted batch holds one result per input coordinate,
   in input order; a coordinate that cannot be read or for which every
   provider failed gets a failed entry at its position, and the coordinates
   after it are still processed. *)
C17_OneResultPerInputInOrder ==
    \A r \in Reqs :
        BatchAnswered(r) =>
            /\ req[r].result.status_code = 200
            /\ Len(req[r].result.body.results) = Len(req[r].locations)
            /\ Len(req[r].log) = Len(req[r].locations)
            /\ \A i \in 1..Len(req[r].locations) :
                   /\ req[r].log[i].item = req[r].locations[i]
                   /\ req[r].log[i].ended
                   /\ i \in DOMAIN req[r].result.body.results
                          => ResultOf(req[r].result.body.results[i], req[r].log[i])

\* every provider failed for the first coordinate, the second could not be
\* read, and a provider answered for the third
C17_Witness ==
    \E r \in Reqs :
        /\ BatchAnswered(r)
        /\ Len(req[r].result.body.results) = 3
        /\ IsGeocodingFailed(req[r].result.body.results[1])
        /\ req[r].result.body.results[2].error.code = "INVALID_LOCATION"
        /\ req[r].result.body.results[3].success
        /\ "success" \in Outcomes(req[r].log[3])

---------------------------------------------------------------------------
(* C18: in every batch response total_requests is the number of input
   coordinates, successful_requests is the number of results whose success
   flag is true, and 0 <= successful_requests <= total_requests. *)
C18_BatchCounts ==
    \A r \in Reqs :
        BatchAnswered(r) =>
            LET body == req[r].result.body
            IN  /\ body.total_requests = Len(req[r].locations)
                /\ body.successful_requests
                       = Len(SelectSeq(body.results, LAMBDA x : x.success))
                /\ 0 <= body.successful_requests
                /\ body.successful_requests <= body.total_requests

\* a batch of three answered with two successes and one failed entry
C18_Witness ==
    \E r \in Reqs :
        /\ BatchAnswered(r)
        /\ req[r].result.body.total_requests = 3
        /\ req[r].result.body.successful_requests = 2
        /\ \E i \in 1..3 : ~req[r].result.body.results[i].success

---------------------------------------------------------------------------
\* request r is taken up in this step, by a single-coordinate endpoint
SingleArrives(r) ==
    req[r].pc = "idle" /\ req'[r].pc # "idle" /\ ~IsBatch(req'[r].endpoint)

\* a latitude outside [-90, 90] or a longitude outside [-180, 180], in units of
\* 1/100000 degree
OutOfRange(location) ==
    \/ location[1] < -9000000 \/ location[1] > 9000000
    \/ location[2] < -18000000 \/ location[2] > 18000000

(* C19: a single request whose latitude or longitude is out of range is
   answered at once with a validation error: no cache read, no cache write, no
   provider call, and the store is left as it was. *)
C19_OutOfRangeRejectedAtOnce ==
    [][\A r \in Reqs :
          (SingleArrives(r) /\ OutOfRange(req'[r].locations[1])) =>
              /\ req'[r].pc = "done"
              /\ req'[r].result.status_code \in {400, 422}
              /\ cache_store' = cache_store
              /\ \A i \in DOMAIN req'[r].log :
                     /\ req'[r].log[i].attempts = <<>>
                     /\ ~req'[r].log[i].hit
                     /\ ~req'[r].log[i].wrote]_vars

\* the serverless handler has refused latitude 95 while the store held an
\* expired entry for its bucket, which a cache read would have deleted
C19_Witness ==
    \E r \in Reqs :
        /\ req[r].pc = "done"
        /\ req[r].endpoint = "handler_reverse"
        /\ req[r].locations = <<<<9500000, 7759464>>>>
        /\ req[r].result.status_code = 400
        /\ \E k \in DOMAIN cache_store :
               /\ k[2] = 950000 /\ k[4] = req[r].language
               /\ cache_store[k].expires_at <= now

---------------------------------------------------------------------------
(* C20: a request whose language is no two-letter lowercase code is refused
   with a validation error at every entry point, no provider is called for it
   and no cache key holds such a language.  The serverless handler reads
   data.get('language', 'en') and never tests it. *)
C20_BadLanguageRejected ==
    /\ \A r \in Reqs :
           (req[r].pc # "idle" /\ ~language_matches(req[r].language)) =>
               /\ req[r].pc = "done"
               /\ req[r].result.status_code \in {400, 422}
               /\ \A i \in DOMAIN req[r].log : req[r].log[i].attempts = <<>>
    /\ \A k \in DOMAIN cache_store : language_matches(k[4])


---------------------------------------------------------------------------
\* the coordinate logged as e has its result, and that result came from a
\* provider call that succeeded
ProviderSucceeded(e) == e.ended /\ "success" \in Outcomes(e)

(* C21: every result a provider's success produced carries an address whose
   confidence is the placeholder 0.8, within [0, 1], whose accuracy is the
   placeholder "medium", and whose place type is one of the five values of
   PlaceType. *)
C21_SuccessCarriesPlaceholders ==
    \A r \in Reqs : \A i \in Items(r) :
        ProviderSucceeded(req[r].log[i]) =>
            LET result == ItemResult(r, i)
            IN  /\ result.success
                /\ HasAddress(result)
                /\ 0 <= result.data.address.confidence
                /\ result.data.address.confidence <= 100
                /\ result.data.address.confidence = 80
                /\ result.data.address.coordinates.accuracy = "medium"
                /\ result.data.address.placeType \in PlaceType

\* Mapbox has produced a success for one coordinate and Nominatim for another
C21_Witness ==
    \A provider \in {"mapbox", "nominatim"} :
        \E r \in Reqs : \E i \in Items(r) :
            /\ ProviderSucceeded(req[r].log[i])
            /\ Last(req[r].log[i].attempts).provider = provider
            /\ ItemResult(r, i).data.metadata.source = provider


---------------------------------------------------------------------------
\* the raw results a provider can return to reverse_geocode
RawResults(provider) ==
    {provider_reverse_geocode(provider, http).value : http \in
        {h \in HttpOutcomes(provider) :
            /\ ~provider_reverse_geocode(provider, h).raised
            /\ TruthyRec(provider_reverse_geocode(provider, h).value)}}

\* what a provider's own parser makes of a raw result
OwnParse(provider, raw) ==
    CASE provider = "google_maps" -> parse_google_maps_response(raw)
      [] provider = "mapbox" -> parse_mapbox_response(raw)
      [] provider = "nominatim" -> parse_nominatim_response(raw)

\* address is, in every field, what provider's parser makes of raw
AddressFrom(address, provider, raw) ==
    /\ address.components = OwnParse(provider, raw)[1]
    /\ address.fullAddress = OwnParse(provider, raw)[2]
    /\ address.formattedAddress = OwnParse(provider, raw)[2]
    /\ address.shortAddress = short_address(OwnParse(provider, raw)[2])

(* C22: results of different providers are never merged.  In every success a
   provider produced, exactly one attempt succeeded, it is the last one,
   metadata.source names its provider, and the display strings and components
   of the address are together what that provider's own parser makes of one
   raw result of that provider. *)
C22_NoMergeAcrossProviders ==
    \A r \in Reqs : \A i \in Items(r) :
        ProviderSucceeded(req[r].log[i]) =>
            LET e == req[r].log[i]
                data == ItemResult(r, i).data
            IN  /\ Cardinality({j \in DOMAIN e.attempts :
                                   e.attempts[j].outcome = "success"}) = 1
                /\ Last(e.attempts).outcome = "success"
                /\ data.metadata.source = Last(e.attempts).provider
                /\ \E raw \in RawResults(data.metadata.source) :
                       AddressFrom(data.address, data.metadata.source, raw)

\* Google Maps and Mapbox were called and failed, Nominatim succeeded, and the
\* address is Nominatim's: the town as city, the suburb as locality
C22_Witness ==
    \E r \in Reqs : \E i \in Items(r) :
        /\ ProviderSucceeded(req[r].log[i])
        /\ Len(req[r].log[i].attempts) = 3
        /\ ItemResult(r, i).data.metadata.source = "nominatim"
        /\ ItemResult(r, i).data.address.fullAddress = NominatimResult.display_name
        /\ ItemResult(r, i).data.address.components.city = "Bengaluru"
        /\ ItemResult(r, i).data.address.components.locality = "Shivaji Nagar"
        /\ ItemResult(r, i).data.address.components.street = "Mahatma Gandhi Road"


---------------------------------------------------------------------------
\* the provider has what it needs to be called
Configured(provider) ==
    CASE provider = "google_maps" -> TruthyStr(settings.GOOGLE_MAPS_API_KEY)
      [] provider = "mapbox" -> TruthyStr(settings.MAPBOX_ACCESS_TOKEN)
      [] provider = "nominatim" -> TRUE

\* the configured providers that come after provider in the order
LaterConfigured(provider) ==
    {p \in {"google_maps", "mapbox", "nominatim"} :
        Rank(p) > Rank(provider) /\ Configured(p)}

\* what the call request r awaits leads to when it ends with `http`
After(r, http) == provider_returned(req[r], cache_store, now, settings, http)

\* the result given for the coordinate request r had in hand, in the request
\* state rq that followed
ResultIn(rq, r) ==
    IF IsBatch(rq.endpoint) THEN rq.results[Len(req[r].log)] ELSE rq.result.body

(* C23: there is no retry, and a timeout is a provider error like any other.
   No provider is called twice for one coordinate.  When the call a request
   awaits times out, the request goes where it goes on a transport error or a
   500: that attempt is failed, and either the next configured provider in
   order is called, or, after the last, the coordinate gets GEOCODING_FAILED. *)
C23_NoRetryTimeoutIsAnError ==
    \A r \in Reqs :
        /\ \A i \in Items(r) : \A j, k \in DOMAIN req[r].log[i].attempts :
               j # k => req[r].log[i].attempts[j].provider
                            # req[r].log[i].attempts[k].provider
        /\ req[r].pc = "await" =>
               LET timed == After(r, HttpTimeout)
                   n == Len(req[r].log)
                   entry == timed.req.log[n]
                   later == LaterConfigured(req[r].provider)
               IN  /\ timed = After(r, HttpTransportError)
                   /\ timed = After(r, HttpResponse(500, EmptyDict))
                   /\ entry.attempts[Len(req[r].log[n].attempts)]
                          = [provider |-> req[r].provider, outcome |-> "failed"]
                   /\ later # {} =>
                          /\ timed.req.pc = "await"
                          /\ Rank(timed.req.provider) > Rank(req[r].provider)
                          /\ \A p \in later : Rank(timed.req.provider) <= Rank(p)
                          /\ Len(entry.attempts) = Len(req[r].log[n].attempts) + 1
                          /\ Last(entry.attempts)
                                 = [provider |-> timed.req.provider, outcome |-> "pending"]
                          /\ timed.store = cache_store
                   /\ later = {} =>
                          /\ entry.ended /\ entry.failed
                          /\ Len(entry.attempts) = Len(req[r].log[n].attempts)
                          /\ IsGeocodingFailed(ResultIn(timed.req, r))

\* a request of the serverless handler whose Google Maps and Mapbox calls
\* failed is in the state the timeout of its Nominatim call leads to: answered
\* with GEOCODING_FAILED
C23_Witness ==
    \E r \in Reqs :
        /\ req[r].endpoint = "handler_reverse" /\ Answered(r)
        /\ Len(req[r].log[1].attempts) = 3
        /\ IsGeocodingFailed(req[r].result.body)
        /\ LET awaiting == [req[r] EXCEPT
                   !.pc = "await", !.provider = "nominatim", !.result = NoneRec,
                   !.log = <<[req[r].log[1] EXCEPT
                                 !.attempts = SetLast(req[r].log[1].attempts,
                                     [provider |-> "nominatim", outcome |-> "pending"]),
                                 !.failed = FALSE, !.wrote = FALSE, !.ended = FALSE]>>]
           IN  provider_returned(awaiting, cache_store, now, settings, HttpTimeout)
                   = [req |-> req[r], store |-> cache_store]


---------------------------------------------------------------------------
\* request r stores the result of the coordinate it has in hand in this step
StoresInThisStep(r) ==
    /\ req[r].pc = "await"
    /\ req'[r].log[Len(req[r].log)].wrote

\* the entry a write of result at time t leaves, in full
WriteOf(result, t) ==
    [data |-> [k \in DOMAIN result \cup {"cached_at", "cache_ttl"} |->
                  CASE k = "cached_at" -> t
                    [] k = "cache_ttl" -> CACHE_TTL_DEFAULT
                    [] OTHER -> result[k]],
     expires_at |-> t + CACHE_TTL_DEFAULT]

\* the keys of the store for the bucket of the coordinate request r has in hand
KeysOfBucket(store, r) ==
    {k \in DOMAIN store :
        /\ SameRounded(10 * k[2], req[r].lat) /\ SameRounded(10 * k[3], req[r].lng)
        /\ k[4] = req[r].language}

(* C24: when a request stores its result, the store then holds exactly one
   entry for the bucket, and its data and expiry are those of this write in
   full, whatever entry another request, which missed at the same time, has
   written there before: the later write wins, and nothing of the earlier
   one is left. *)
C24_LastWriteWins ==
    [][\A r \in Reqs : StoresInThisStep(r) =>
          /\ Cardinality(KeysOfBucket(cache_store', r)) = 1
          /\ \A k \in KeysOfBucket(cache_store', r) :
                 cache_store'[k] = WriteOf(ResultIn(req'[r], r), now)]_vars

\* both requests missed before either stored, both stored different results
\* at different times, and the entry is the write of one of them
C24_Witness ==
    \E q, r \in Reqs :
        /\ q # r /\ IsSingle(q) /\ IsSingle(r) /\ Answered(q) /\ Answered(r)
        /\ req[q].language = req[r].language
        /\ ~req[q].log[1].fresh /\ ~req[r].log[1].fresh
        /\ req[q].log[1].wrote /\ req[r].log[1].wrote
        /\ HasAddress(req[q].result.body) /\ HasAddress(req[r].result.body)
        /\ req[q].result.body.timestamp < req[r].result.body.timestamp
        /\ req[q].result.body.data.metadata.source
               # req[r].result.body.data.metadata.source
        /\ \E k \in DOMAIN cache_store :
               /\ cache_store[k] = WriteOf(req[r].result.body, req[r].result.body.timestamp)
               /\ cache_store[k] # WriteOf(req[q].result.body, req[q].result.body.timestamp)
               /\ DOMAIN cache_store = {k}


---------------------------------------------------------------------------
(* C25: store then lookup.  A get_location before the expiry of the last
   set_location that returned True for its bucket returns a record holding
   every key and value of the data of that call, with cached_at and cache_ttl
   added, and nothing else: a second set_location for the bucket replaces the
   entry of the first. *)
C25_StoreThenLookup ==
    \A j \in 1..Len(probe.ops) :
        (/\ probe.ops[j].op = "get"
         /\ SetsBefore(j) # {}
         /\ probe.ops[j].at < probe.ops[LastSetBefore(j)].at
                + DocumentedTtl(probe.ops[LastSetBefore(j)].place_type)) =>
            LET stored == probe.ops[LastSetBefore(j)]
                found == probe.ops[j].found
            IN  /\ stored.returned
                /\ found # NoneRec
                /\ \A k \in DOMAIN stored.data : found[k] = stored.data[k]
                /\ found.cached_at = stored.at
                /\ found.cache_ttl = DocumentedTtl(stored.place_type)
                /\ DOMAIN found = DOMAIN stored.data \cup {"cached_at", "cache_ttl"}

\* the test data was stored, then a response for the same bucket, and the
\* lookup returned the response without the keys of the test data
C25_Witness ==
    /\ Len(probe.ops) = 3
    /\ probe.ops[1].op = "set" /\ probe.ops[1].data = CacheTestData
    /\ probe.ops[2].op = "set" /\ probe.ops[2].data = CacheResponseData
    /\ probe.ops[2].at > probe.ops[1].at
    /\ probe.ops[3].op = "get" /\ probe.ops[3].lat = 1297139
    /\ probe.ops[3].found # NoneRec
    /\ probe.ops[3].found.success
    /\ "test" \notin DOMAIN probe.ops[3].found


---------------------------------------------------------------------------
(* The parser specification: each of the three parsers applied once to a raw
   result drawn from the shapes its provider answers with *)

\* the entries of address_components and of context in one raw result
MaxParts == 3

\* a key the payload does not carry
Absent == "<absent>"

\* the fields of Nominatim's address object that the fallback chains and the
\* country code read
NominatimKeys == {"suburb", "neighbourhood", "city", "town", "village", "country_code"}

NominatimName(k) ==
    CASE k = "suburb" -> "Shivaji Nagar"
      [] k = "neighbourhood" -> "Tasker Town"
      [] k = "city" -> "Bengaluru"
      [] k = "town" -> "Yelahanka"
      [] k = "village" -> "Hesaraghatta"
      [] k = "country_code" -> "in"

\* each field left out, null, empty or named
NominatimChoices == [NominatimKeys -> {Absent, None, "", "name"}]

NominatimAddress(f) ==
    [k \in {key \in NominatimKeys : f[key] # Absent} |->
        IF f[k] = "name" THEN NominatimName(k) ELSE f[k]]
        @@ [road |-> "Mahatma Gandhi Road", state |-> "Karnataka",
            country |-> "India", postcode |-> "560001"]

NominatimInputs ==
    {[display_name |-> NominatimResult.display_name, address |-> NominatimAddress(f)] :
        f \in NominatimChoices}

\* sequences of at most n members of S
SeqsUpTo(S, n) == UNION {[1..m -> S] : m \in 0..n}

\* entries of address_components as the Geocoding API gives them: one feature
\* type each, with "political" beside it, among them entries of types the
\* parser does not read and one without its types
GoogleParts ==
    {[types |-> {"route"}, long_name |-> "MG Road", short_name |-> "MG Rd"],
     [types |-> {"sublocality", "sublocality_level_1", "political"},
      long_name |-> "Shivaji Nagar", short_name |-> "Shivaji Nagar"],
     [types |-> {"sublocality", "political"},
      long_name |-> "Ashok Nagar", short_name |-> "Ashok Nagar"],
     [types |-> {"locality", "political"}, long_name |-> "Bengaluru",
      short_name |-> "BLR"],
     [types |-> {"administrative_area_level_1", "political"},
      long_name |-> "Karnataka", short_name |-> "KA"],
     [types |-> {"country", "political"}, long_name |-> "India", short_name |-> "IN"],
     [types |-> {"postal_code"}, long_name |-> "560001", short_name |-> "560001"],
     [types |-> {"plus_code"}, long_name |-> "XHCV+5Q", short_name |-> "XHCV+5Q"],
     [types |-> {"administrative_area_level_2", "political"},
      long_name |-> "Bengaluru Urban", short_name |-> "Bengaluru Urban"],
     [long_name |-> "Unnamed Road", short_name |-> "Unnamed Road"]}

GoogleInputs ==
    {[formatted_address |-> GoogleResult.formatted_address,
      address_components |-> components] :
        components \in SeqsUpTo(GoogleParts, MaxParts)}

\* entries of context as the Mapbox Geocoding API gives them, "<type>.<number>"
\* for an id, among them two places, a country with and one without its
\* short_code, entries of types the parser does not read and one without
\* its id
MapboxParts ==
    {[id |-> "place.123", text |-> "Bengaluru"],
     [id |-> "place.999", text |-> "Yelahanka"],
     [id |-> "region.45", text |-> "Karnataka"],
     [id |-> "country.6", text |-> "India", short_code |-> "in"],
     [id |-> "country.7", text |-> "Bharat"],
     [id |-> "postcode.78", text |-> "560001"],
     [id |-> "neighborhood.4", text |-> "Shivaji Nagar"],
     [id |-> "locality.3", text |-> "Ashok Nagar"],
     [id |-> "district.2", text |-> "Bengaluru Urban"],
     [text |-> "Unnamed"]}

\* properties with and without the address
MapboxProperties == {[address |-> "MG Road"], [accuracy |-> "street"]}

MapboxInputs ==
    {[place_name |-> MapboxFeature.place_name, properties |-> properties,
      context |-> context] :
        properties \in MapboxProperties, context \in SeqsUpTo(MapboxParts, MaxParts)}

ParseInit ==
    /\ deployment = "serverless"
    /\ settings = [GOOGLE_MAPS_API_KEY |-> None, MAPBOX_ACCESS_TOKEN |-> None]
    /\ cache_store = <<>>
    /\ now = 0
    /\ req = [r \in Reqs |-> IdleReq]
    /\ probe = [phase |-> "start"]

\* the pair a parser returned for raw, as the specification keeps it
Parsed(parser, raw, parsed) ==
    [phase |-> "parsed", parser |-> parser, raw |-> raw,
     components |-> parsed[1], formatted_address |-> parsed[2]]

\* components, formatted_address = self._parse_nominatim_response(raw_data)
ParseNominatim(raw) ==
    /\ probe.phase = "start"
    /\ probe' = Parsed("nominatim", raw, parse_nominatim_response(raw))
    /\ UNCHANGED <<deployment, settings, cache_store, now, req>>

\* components, formatted_address = self._parse_google_maps_response(raw_data)
ParseGoogleMaps(raw) ==
    /\ probe.phase = "start"
    /\ probe' = Parsed("google_maps", raw, parse_google_maps_response(raw))
    /\ UNCHANGED <<deployment, settings, cache_store, now, req>>

\* components, formatted_address = self._parse_mapbox_response(raw_data)
ParseMapbox(raw) ==
    /\ probe.phase = "start"
    /\ probe' = Parsed("mapbox", raw, parse_mapbox_response(raw))
    /\ UNCHANGED <<deployment, settings, cache_store, now, req>>

ParseNext ==
    \/ \E raw \in NominatimInputs : ParseNominatim(raw)
    \/ \E raw \in GoogleInputs : ParseGoogleMaps(raw)
    \/ \E raw \in MapboxInputs : ParseMapbox(raw)

SpecParse == ParseInit /\ [][ParseNext]_vars

---------------------------------------------------------------------------
\* the value the address object of the parsed Nominatim result gives for k
Given(k) == Get(probe.raw.address, k, None)

\* a field is present when the payload gives it a value: neither left out, nor
\* null, nor the empty string
Present(k) == Given(k) # None /\ Given(k) # ""

(* C26: the Nominatim parser takes the first value present along each chain:
   locality is suburb when present, otherwise neighbourhood; city is city when
   present, otherwise town when present, otherwise village; the country code
   is put in upper case when present and is absent otherwise.  A field is
   present when the payload gives it a non-empty value. *)
C26_NominatimFirstPresentWins ==
    (probe.phase = "parsed" /\ probe.parser = "nominatim") =>
        /\ probe.components.locality =
               IF Present("suburb") THEN Given("suburb") ELSE Given("neighbourhood")
        /\ probe.components.city =
               IF Present("city") THEN Given("city")
               ELSE IF Present("town") THEN Given("town")
               ELSE Given("village")
        /\ Present("country_code") => probe.components.countryCode = "IN"
        /\ ~Present("country_code") => probe.components.countryCode = None

\* suburb and neighbourhood are both named, city is left out, town is named:
\* the suburb and the town are taken, the country code is IN
C26_Witness ==
    /\ probe.phase = "parsed" /\ probe.parser = "nominatim"
    /\ Given("suburb") = "Shivaji Nagar" /\ Given("neighbourhood") = "Tasker Town"
    /\ "city" \notin DOMAIN probe.raw.address
    /\ Given("town") = "Yelahanka" /\ Given("village") = "Hesaraghatta"
    /\ Given("country_code") = "in"
    /\ probe.components.locality = "Shivaji Nagar"
    /\ probe.components.city = "Yelahanka"
    /\ probe.components.countryCode = "IN"


---------------------------------------------------------------------------
\* the tags the Google Maps parser recognizes, by the field each is mapped to
FieldTags ==
    [street |-> {"route"},
     locality |-> {"sublocality", "sublocality_level_1"},
     city |-> {"locality"},
     state |-> {"administrative_area_level_1"},
     country |-> {"country"},
     pincode |-> {"postal_code"}]

\* the positions of the parsed address_components that carry a tag of field
Carriers(field) ==
    {i \in DOMAIN probe.raw.address_components :
        Get(probe.raw.address_components[i], "types", {}) \cap FieldTags[field] # {}}

\* the last of them
LastCarrier(field) ==
    probe.raw.address_components[
        CHOOSE i \in Carriers(field) : \A j \in Carriers(field) : j <= i]

(* C27: the Google Maps parser maps each recognized tag to its field: route to
   street, sublocality to locality, locality to city,
   administrative_area_level_1 to state, country to country and, by its short
   name, to countryCode, postal_code to the postal code.  A field holds the
   long name of the last entry carrying its tag and is absent when no entry
   carries it, so entries without a recognized tag change nothing; no other
   field is set. *)
C27_GoogleTagsToFields ==
    (probe.phase = "parsed" /\ probe.parser = "google_maps") =>
        /\ \A field \in DOMAIN FieldTags :
               probe.components[field] =
                   IF Carriers(field) = {} THEN None
                   ELSE LastCarrier(field).long_name
        /\ probe.components.countryCode =
               IF Carriers("country") = {} THEN None
               ELSE LastCarrier("country").short_name
        /\ \A field \in DOMAIN probe.components :
               field \notin DOMAIN FieldTags \cup {"countryCode"} =>
                   probe.components[field] = None

\* a locality, an entry of a type the parser does not read, and the country:
\* city, country and countryCode are set and nothing else
C27_Witness ==
    /\ probe.phase = "parsed" /\ probe.parser = "google_maps"
    /\ Len(probe.raw.address_components) = 3
    /\ probe.raw.address_components[1].long_name = "Bengaluru"
    /\ probe.raw.address_components[2].long_name = "XHCV+5Q"
    /\ probe.raw.address_components[3].long_name = "India"
    /\ probe.components =
           [AddressComponents EXCEPT !.city = "Bengaluru", !.country = "India",
                                     !.countryCode = "IN"]


---------------------------------------------------------------------------
\* the id prefixes the Mapbox parser reads, by the field each sets
FieldPrefix ==
    [city |-> "place", state |-> "region", country |-> "country",
     pincode |-> "postcode"]

\* the positions of the parsed context whose id starts with the prefix of field
Prefixed(field) ==
    {i \in DOMAIN probe.raw.context :
        /\ "id" \in DOMAIN probe.raw.context[i]
        /\ Len(probe.raw.context[i].id) >= Len(FieldPrefix[field])
        /\ SubSeq(probe.raw.context[i].id, 1, Len(FieldPrefix[field]))
               = FieldPrefix[field]}

\* the last of them
LastPrefixed(field) ==
    probe.raw.context[CHOOSE i \in Prefixed(field) : \A j \in Prefixed(field) : j <= i]

(* C28: the Mapbox parser matches the entries of context by the prefix of
   their id, not by the whole id: an id that starts with place sets city,
   region state, country country, postcode the postal code, each from the
   entry's text, the last such entry winning; the street is
   properties.address; entries with any other id, or none, change no field,
   and the country code is set by a country entry only. *)
C28_MapboxMatchesByPrefix ==
    (probe.phase = "parsed" /\ probe.parser = "mapbox") =>
        /\ \A field \in DOMAIN FieldPrefix :
               probe.components[field] =
                   IF Prefixed(field) = {} THEN None ELSE LastPrefixed(field).text
        /\ probe.components.street =
               IF "address" \in DOMAIN probe.raw.properties
               THEN probe.raw.properties.address ELSE None
        /\ Prefixed("country") = {} => probe.components.countryCode = None
        /\ \A field \in DOMAIN probe.components :
               field \notin DOMAIN FieldPrefix \cup {"street", "countryCode"} =>
                   probe.components[field] = None

\* two places with different ids around a neighborhood: the city is the text
\* of the second place, the street is properties.address, nothing else is set
C28_Witness ==
    /\ probe.phase = "parsed" /\ probe.parser = "mapbox"
    /\ probe.raw.context =
           <<[id |-> "place.123", text |-> "Bengaluru"],
             [id |-> "neighborhood.4", text |-> "Shivaji Nagar"],
             [id |-> "place.999", text |-> "Yelahanka"]>>
    /\ probe.raw.properties = [address |-> "MG Road"]
    /\ probe.components =
           [AddressComponents EXCEPT !.city = "Yelahanka", !.street = "MG Road"]


---------------------------------------------------------------------------
\* the key the j-th call of the cache specification computes
OpKey(j) == generate_cache_key(probe.ops[j].lat, 7759464, "en")

\* the store from the end of the j-th call to the next call, or to now when
\* it is the last: the clock moves in between, and nothing else
StoreAfter(j) ==
    IF j < Len(probe.ops) THEN probe.ops[j + 1].before ELSE cache_store

(* C29: eviction is lazy.  A get_location that finds an entry at or past its
   expiry removes it and reports absent, and get_location returns data only
   of an entry that has not expired.  Nothing else removes an entry: not
   set_location, not a get_location of another key or before the expiry, and
   not the passing of time, so an expired entry stays until it is read. *)
C29_LazyEviction ==
    \A j \in 1..Len(probe.ops) :
        LET o == probe.ops[j]
            k == OpKey(j)
            expired == /\ o.op = "get" /\ k # Raised /\ k \in DOMAIN o.before
                       /\ o.at >= o.before[k].expires_at
        IN  /\ expired => (o.found = NoneRec /\ k \notin DOMAIN StoreAfter(j))
            /\ (o.op = "get" /\ o.found # NoneRec) =>
                   /\ k \in DOMAIN o.before
                   /\ o.at < o.before[k].expires_at
                   /\ o.found = o.before[k].data
            /\ \A e \in DOMAIN o.before :
                   e \notin DOMAIN StoreAfter(j) => (expired /\ e = k)

\* an entry was read past its expiry and removed, while another entry, expired
\* earlier and not read, is still in the store
C29_Witness ==
    /\ Len(probe.ops) = 3
    /\ probe.ops[3].op = "get" /\ probe.ops[3].lat # Infinity
    /\ OpKey(3) \in DOMAIN probe.ops[3].before
    /\ OpKey(3) \notin DOMAIN cache_store
    /\ probe.ops[3].found = NoneRec
    /\ \E e \in DOMAIN cache_store : cache_store[e].expires_at < probe.ops[3].at


---------------------------------------------------------------------------
(* C30: a call on one bucket leaves the other buckets alone.  Whatever calls
   on whatever buckets came before, set_location for key k changes the entry
   at k only; get_location for key k changes nothing on a hit and nothing
   when the store has no entry at k, and otherwise removes the entry at k
   only; every entry at another key keeps its data and its expiry. *)
C30_OtherBucketsUntouched ==
    \A j \in 1..Len(probe.ops) :
        LET o == probe.ops[j]
            k == OpKey(j)
            after == StoreAfter(j)
        IN  /\ \A e \in DOMAIN o.before \cup DOMAIN after :
                   e # k => /\ e \in DOMAIN o.before /\ e \in DOMAIN after
                            /\ after[e] = o.before[e]
            /\ (o.op = "get" /\ o.found # NoneRec) => after = o.before
            /\ (o.op = "get" /\ k # Raised /\ k \notin DOMAIN o.before) =>
                   after = o.before
            /\ (o.op = "get" /\ k # Raised /\ k \in DOMAIN o.before) =>
                   DOMAIN after \in {DOMAIN o.before, DOMAIN o.before \ {k}}
            /\ (o.op = "set" /\ o.returned) =>
                   DOMAIN after = DOMAIN o.before \cup {k}

\* with entries in two buckets, the entry of one was replaced by a later
\* set_location, and the entry of the other is as it was
C30_Witness ==
    /\ Len(probe.ops) = 3
    /\ probe.ops[3].op = "set" /\ probe.ops[3].returned
    /\ OpKey(3) \in DOMAIN probe.ops[3].before
    /\ cache_store[OpKey(3)] # probe.ops[3].before[OpKey(3)]
    /\ \E e \in DOMAIN probe.ops[3].before :
           /\ e # OpKey(3)
           /\ e \in DOMAIN cache_store
           /\ cache_store[e] = probe.ops[3].before[e]


---------------------------------------------------------------------------
\* the stored and the looked-up point of the key specification agree in
\* rounded latitude, rounded longitude and language
SameBucket ==
    /\ SameRounded(probe.stored[1], probe.looked[1])
    /\ SameRounded(probe.stored[2], probe.looked[2])
    /\ probe.stored[3] = probe.looked[3]

(* C31: the cache key is a function of exactly the rounded latitude, the
   rounded longitude and the language.  The key of a lookup is the key of the
   store before it exactly when all three agree; a result stored for one
   language is not returned for another language at the same coordinates, nor
   for coordinates that round to another value; and points that agree in all
   three get the stored entry, whatever their unrounded digits. *)
C31_KeyIsRoundedPairAndLanguage ==
    probe.phase = "looked" =>
        LET stored_key == generate_cache_key(probe.stored[1], probe.stored[2], probe.stored[3])
            looked_key == generate_cache_key(probe.looked[1], probe.looked[2], probe.looked[3])
        IN  /\ (stored_key = looked_key) <=> SameBucket
            /\ DOMAIN cache_store = {stored_key}
            /\ ~SameRounded(probe.stored[1], probe.looked[1]) => probe.found = NoneRec
            /\ ~SameRounded(probe.stored[2], probe.looked[2]) => probe.found = NoneRec
            /\ probe.stored[3] # probe.looked[3] => probe.found = NoneRec
            /\ SameBucket => probe.found = cache_store[stored_key].data

\* a result stored in English was looked up in Hindi at the very same
\* coordinates and not found
C31_Witness ==
    /\ probe.phase = "looked"
    /\ probe.stored = <<1297139, 7759464, "en">>
    /\ probe.looked = <<1297139, 7759464, "hi">>
    /\ probe.found = NoneRec
    /\ cache_store # <<>>


---------------------------------------------------------------------------
(* The health specification: GET /api/v1/location/health of either entry
   module, with the network answering the connectivity probe in every way *)

\* health requests per behaviour
MaxProbes == 3

\* what `await client.get("https://httpbin.org/status/200")` can give
ProbeOutcomes ==
    {HttpResponse(200, EmptyDict), HttpResponse(500, EmptyDict),
     HttpResponse(503, EmptyDict), HttpTimeout, HttpTransportError}

\* CacheService.health_check: return True
cache_health_check == Returned(TRUE)

\* GeocodingService.health_check: True on a 200, False on any other status
\* and, through the bare except, on every exception
geocoding_health_check(http) ==
    IF http.kind # "response" THEN Returned(FALSE)
    ELSE Returned(http.status_code = 200)

\* health_check of the FastAPI router: both probes are awaited and their
\* values dropped; the except branch answers when one of them raises
health_check(cache_probe, geocoding_probe) ==
    IF cache_probe = Raised \/ geocoding_probe = Raised
    THEN [status |-> "unhealthy", error |-> "raised"]
    ELSE [status |-> "healthy",
          services |-> [cache |-> "up", geocoding |-> "up"]]

\* handler._handle_health_check: no probe is called
handle_health_check(t) ==
    [status |-> "healthy",
     services |-> [cache |-> "up", geocoding |-> "up"],
     timestamp |-> t]

HealthInit ==
    /\ deployment \in {"fastapi", "serverless"}
    /\ settings = [GOOGLE_MAPS_API_KEY |-> None, MAPBOX_ACCESS_TOKEN |-> None]
    /\ cache_store = <<>>
    /\ now = 0
    /\ req = [r \in Reqs |-> IdleReq]
    /\ probe = [health |-> <<>>]

\* GET /api/v1/location/health of the FastAPI app, the network answering the
\* probe with `http`
Health(http) ==
    /\ deployment = "fastapi"
    /\ Len(probe.health) < MaxProbes
    /\ probe' = [health |-> Append(probe.health,
                     [network |-> http,
                      cache_probe |-> cache_health_check.value,
                      geocoding_probe |-> geocoding_health_check(http).value,
                      status_code |-> 200,
                      body |-> health_check(cache_health_check,
                                            geocoding_health_check(http))])]
    /\ UNCHANGED <<deployment, settings, cache_store, now, req>>

\* GET /api/v1/location/health of the serverless handler while the network
\* would answer the probe with `http`
HandlerHealth(http) ==
    /\ deployment = "serverless"
    /\ Len(probe.health) < MaxProbes
    /\ probe' = [health |-> Append(probe.health,
                     [network |-> http,
                      cache_probe |-> cache_health_check.value,
                      geocoding_probe |-> geocoding_health_check(http).value,
                      status_code |-> 200,
                      body |-> handle_health_check(now)])]
    /\ UNCHANGED <<deployment, settings, cache_store, now, req>>

HealthNext ==
    \/ \E http \in ProbeOutcomes : Health(http)
    \/ \E http \in ProbeOutcomes : HandlerHealth(http)
    \/ Tick

SpecHealth == HealthInit /\ [][HealthNext]_vars

---------------------------------------------------------------------------
\* what the health answer says of a component, "down" when it names none
Reported(body, component) ==
    IF "services" \in DOMAIN body THEN body.services[component] ELSE "down"

(* C32: the health endpoint reports the geocoding component as up exactly
   when GeocodingService.health_check returns true, and the cache component
   as up exactly when CacheService.health_check returns true.  The FastAPI
   endpoint awaits both probes and drops their values, and the serverless
   handler calls neither: both answer up for geocoding while the probe is
   false. *)
C32_HealthReflectsProbes ==
    \A i \in 1..Len(probe.health) :
        LET h == probe.health[i]
        IN  /\ Reported(h.body, "geocoding") = "up" <=> h.geocoding_probe
            /\ Reported(h.body, "cache") = "up" <=> h.cache_probe


---------------------------------------------------------------------------
\* the coordinates an answer carries: the coordinates field of the response,
\* and for the serverless answer from the cache those of the response it wraps
CoordinatesOf(body) ==
    IF "coordinates" \in DOMAIN body THEN body.coordinates
    ELSE body.data.coordinates

(* C33: every result returned by /reverse carries the coordinates of the
   request it answers, also when it is served from a cache entry stored by
   an earlier request for another point of the same bucket.  The answer
   from the cache is the stored response as it is, with the coordinates of
   the request that stored it. *)
C33_ResultEchoesRequestCoordinates ==
    \A r \in Reqs :
        (IsSingle(r) /\ Answered(r)) =>
            CoordinatesOf(req[r].result.body)
                = [latitude |-> req[r].lat, longitude |-> req[r].lng]


---------------------------------------------------------------------------
(* C34: for each of the three parsers and every raw response the normalised
   countryCode is None or a non-empty string; a country entry without a
   short code gives None.  The Mapbox parser takes
   item.get("short_code", "").upper() of a country entry, which is the empty
   string when the entry has no short_code. *)
C34_CountryCodeNeverEmpty ==
    probe.phase = "parsed" => probe.components.countryCode # ""


=============================================================================
